---- MODULE Spec2Model ----
(***************************************************************************)
(* Model of the S01 units: the three pipeline scripts E01/e01.py,          *)
(* E02/e02.py, E03/e03.py (fetch, transform, ask, submit, report) and the  *)
(* two Flask units E04/langfuse_prompt and E04/langfuse_python             *)
(* (POST /api/chat).                                                       *)
(*                                                                         *)
(* Python values are tagged records, so that None, "", 0, [] and {} stay   *)
(* distinct and Python's truth test can be modelled as the code applies    *)
(* it.  A Python str is a sequence of tokens (characters where the code    *)
(* slices or scans the text, whole words where it only passes it on).      *)
(***************************************************************************)
EXTENDS Integers, Sequences, FiniteSets, TLC

VARIABLES
    unit,     \* the unit under execution: "e01", "e02", "e03", "prompt", "python"
    pc,       \* pc[i]: position of invocation i in main() / chat()
    loc,      \* loc[i]: the local variables of invocation i
    calls,    \* calls[i]: the external calls invocation i issued, with their results
    out,      \* out[i]: what invocation i printed or logged
    resp,     \* resp[i]: the HTTP response of chat() (Flask units)
    file,     \* content of S01/E03/json.txt on disk (persists across runs)
    spans,    \* spans[i]: what invocation i did with the Langfuse SDK, in order
    exit,     \* exit[i]: the exit status of process i of e01, None while it runs
    services  \* the module-level objects: of a Flask unit, shared by the requests;
              \* of a script, those of each of its processes

vars == <<unit, pc, loc, calls, out, resp, file, spans, exit, services>>

----------------------------------------------------------------------------
(* Python values *)

PyNone == [t |-> "None"]
PyStr(s) == [t |-> "str", s |-> s]
PyInt(n) == [t |-> "int", n |-> n]
PyBool(b) == [t |-> "bool", b |-> b]
PyList(l) == [t |-> "list", l |-> l]
PyDict(d) == [t |-> "dict", d |-> d]

\* Python's truth test, as applied by "if not x" / "if x and y".
Truthy(x) ==
    CASE x.t = "None" -> FALSE
      [] x.t = "str" -> x.s # <<>>
      [] x.t = "int" -> x.n # 0
      [] x.t = "bool" -> x.b
      [] x.t = "list" -> x.l # <<>>
      [] x.t = "dict" -> DOMAIN x.d # {}
      [] x.t = "odict" -> x.items # <<>>
      [] x.t = "http" -> x.status < 400

\* Python's ==: a bool is the integer 0 or 1, lists are equal when their
\* elements are, objects when they have the same keys with equal values
RECURSIVE PyEq(_, _)
PyEq(a, b) ==
    LET Num(x) == IF x.t = "bool" THEN (IF x.b THEN 1 ELSE 0) ELSE x.n
        Keys(x) == IF x.t = "dict" THEN DOMAIN x.d
                   ELSE {x.items[k][1] : k \in 1..Len(x.items)}
        At(x, key) ==
            IF x.t = "dict" THEN x.d[key]
            ELSE x.items[CHOOSE k \in 1..Len(x.items) :
                            /\ x.items[k][1] = key
                            /\ \A j \in (k + 1)..Len(x.items) : x.items[j][1] # key][2]
    IN IF a.t \in {"int", "bool"} /\ b.t \in {"int", "bool"} THEN Num(a) = Num(b)
       ELSE IF a.t = "list" /\ b.t = "list"
       THEN Len(a.l) = Len(b.l) /\ \A k \in 1..Len(a.l) : PyEq(a.l[k], b.l[k])
       ELSE IF a.t \in {"dict", "odict"} /\ b.t \in {"dict", "odict"}
       THEN Keys(a) = Keys(b) /\ \A key \in Keys(a) : PyEq(At(a, key), At(b, key))
       ELSE a = b

\* dict.get(key) / dict.get(key, default)
GetOr(x, key, default) == IF key \in DOMAIN x.d THEN x.d[key] ELSE default
Get(x, key) == GetOr(x, key, PyNone)

\* a text that holds a JSON document: json.loads / response.json() either
\* yields the value or raises
JsonText(v) == [t |-> "text", valid |-> TRUE, val |-> v]
BadJsonText == [t |-> "text", valid |-> FALSE, val |-> PyNone]

----------------------------------------------------------------------------
(* The external world: what the remote endpoints can answer *)

Inv == {1, 2}     \* the unit is run (or the request is sent) twice

Statuses == {200, 201, 404, 500}

NetErr == [t |-> "neterr"]
Http(status, body) == [t |-> "http", status |-> status, body |-> body]

\* response.raise_for_status(): HTTPError for 4xx and 5xx
raise_for_status(rsp) == 400 <= rsp.status /\ rsp.status < 600

OpenAIError == [t |-> "OpenAIError"]
LlmText(s) == [t |-> "llm", out |-> s]

Call(fn, arg, res) == [fn |-> fn, arg |-> arg, res |-> res]
Line(msg, val) == [msg |-> msg, val |-> val]

Pipelines == {"e01", "e02", "e03"}
FlaskUnits == {"prompt", "python"}

\* a script is a process: the second run starts when the first has ended
Turn(i) == IF i = 1 THEN TRUE ELSE pc[i - 1] = "done"

Issued(i, fn) == {k \in 1..Len(calls[i]) : calls[i][k].fn = fn}
Said(i, msg) == \E k \in 1..Len(out[i]) : out[i][k].msg = msg

NoLocals ==
    [question |-> PyNone, msgID |-> PyNone, answer |-> PyNone,
     result |-> PyNone, data |-> PyNone, valid_data |-> PyNone,
     question_to_llm |-> PyNone, path |-> PyNone,
     request |-> PyNone, uuid4 |-> PyNone, session_id |-> PyNone,
     user_id |-> PyNone, messages |-> PyNone, all_messages |-> PyNone,
     generated_response |-> PyNone, trace_id |-> PyNone, completion |-> PyNone,
     tempfile |-> PyNone, OPENAI_API_KEY |-> PyNone]

----------------------------------------------------------------------------
(* E01/e01.py *)

QPrefix == <<"Q", "u", "e", "s", "t", "i", "o", "n", ":">>

\* the characters that str.strip() removes: those for which str.isspace()
\* holds, among the characters a string of the model can hold (up to U+00FF):
\* space, \t, \n, \r, \f, and U+000B, U+001C to U+001F, U+0085, U+00A0
Whitespace ==
    {" ", "\t", "\n", "\r", "\f", "", "", "", "", "", "", " "}

\* str.strip() of get_text(strip=True)
RECURSIVE LStrip(_)
LStrip(s) == IF s # <<>> /\ Head(s) \in Whitespace THEN LStrip(Tail(s)) ELSE s
RECURSIVE RStrip(_)
RStrip(s) ==
    IF s # <<>> /\ s[Len(s)] \in Whitespace THEN RStrip(SubSeq(s, 1, Len(s) - 1)) ELSE s
Strip(s) == RStrip(LStrip(s))

\* question_text[9:]
Slice9(s) == SubSeq(s, 10, Len(s))

\* the login page: whether it has an element with id='human-question', and
\* that element's text
Page(hasElem, txt) == [t |-> "html", hasElem |-> hasElem, text |-> txt]
Pages01 ==
    { Page(FALSE, <<>>),
      Page(TRUE, QPrefix \o <<"W", "?">>),
      Page(TRUE, <<"\n", "">> \o QPrefix \o <<" ", "Y", " ", "\n">>),
      Page(TRUE, QPrefix),
      Page(TRUE, <<"N", "o">>) }
FetchResp01 == {NetErr} \cup {Http(s, p) : s \in Statuses, p \in Pages01}

fetch_question(rsp) ==
    IF rsp.t = "neterr" THEN PyNone
    ELSE IF rsp.status = 200
         THEN IF rsp.body.hasElem
              THEN PyStr(Slice9(Strip(rsp.body.text)))
              ELSE PyNone
         ELSE PyNone

fetch_question_says(rsp) ==
    IF rsp.t = "neterr" THEN <<Line("Error: Failed to fetch the question", PyNone)>>
    ELSE IF rsp.status # 200
         THEN <<Line("Error: Received status code", PyInt(rsp.status))>>
         ELSE <<>>

LlmResp01 == {OpenAIError} \cup {LlmText(s) : s \in {<<>>, <<"1939">>, <<"1410">>}}

get_answer_from_llm(rsp) ==
    IF rsp.t = "OpenAIError" THEN PyNone ELSE PyStr(rsp.out)

\* the page returned by the login POST: its text
SecretTexts ==
    { <<>>,
      <<"{", "{", "F", "L", "G", "}", "}">>,
      <<"a", "{", "{", "x", "}", "}", "{", "{", "y", "}", "}">> }
LoginResp01 == {NetErr} \cup {Http(s, PyStr(b)) : s \in Statuses, b \in SecretTexts}

\* login_to_system without the test of the status code
login_to_system_any(rsp) == IF rsp.t = "neterr" THEN PyNone ELSE rsp


login_to_system(rsp) ==
    IF rsp.t = "neterr" THEN PyNone
    ELSE IF rsp.status = 200 THEN rsp ELSE PyNone

login_to_system_says(rsp) ==
    IF rsp.t = "neterr" THEN <<Line("Error: Failed to send login request", PyNone)>>
    ELSE IF rsp.status # 200
         THEN <<Line("Error: Received status code", PyInt(rsp.status))>>
         ELSE <<>>

Min(S) == CHOOSE x \in S : \A y \in S : x <= y

\* re.findall(r"{{(.*?)}}", text): scanning from the left, an opening "{{"
\* matches with the nearest "}}" that no newline separates from it ('.' does not
\* match a newline); the scan resumes after the match, or one character further
\* when the opening has no match.
RECURSIVE FindFrom(_, _)
FindFrom(s, i) ==
    IF i + 3 > Len(s) THEN <<>>
    ELSE IF s[i] = "{" /\ s[i + 1] = "{"
         THEN LET js == {j \in (i + 2)..(Len(s) - 1) :
                           /\ s[j] = "}" /\ s[j + 1] = "}"
                           /\ \A k \in (i + 2)..(j - 1) : s[k] # "\n"}
              IN IF js # {}
                 THEN <<SubSeq(s, i + 2, Min(js) - 1)>> \o FindFrom(s, Min(js) + 2)
                 ELSE FindFrom(s, i + 1)
         ELSE FindFrom(s, i + 1)

findall(s) == FindFrom(s, 1)

\* fetch_secret_data: the lines it prints for the login response
fetch_secret_data_says(login_response) ==
    <<Line("Secret page URL", PyNone)>> \o
    [k \in 1..Len(findall(login_response.body.s)) |->
        Line("Found content", PyStr(findall(login_response.body.s)[k]))]

\* a process that ends with status 0 whatever has ended it
exit_status_zero(exc) == PyInt(0)


\* the status the process ends with; exc is the exception that has ended it,
\* or None when main() has returned.  The __main__ block answers an Exception
\* out of main() with sys.exit(1), and the interpreter ends with status 1 on
\* an exception of a module-level statement; a KeyboardInterrupt is no
\* Exception: the interpreter lets SIGINT end the process (130 to a shell)
exit_status(exc) ==
    CASE exc = PyNone -> PyInt(0)
      [] exc = PyStr(<<"KeyboardInterrupt">>) -> [t |-> "signal", name |-> "SIGINT"]
      [] OTHER -> PyInt(1)

\* the module-level statements of e01.py: os.getenv("OPENAI_API_KEY") returns
\* the key or None, and OpenAI(api_key=None) raises an OpenAIError, with which
\* the process ends before main() is called and with the name client unbound
E01Import(i) ==
    /\ unit = "e01" /\ pc[i] = "import" /\ Turn(i)
    /\ \E key \in {PyNone, PyStr(<<"sk">>)} :
         /\ loc' = [loc EXCEPT ![i].OPENAI_API_KEY = key]
         /\ IF key = PyNone
            THEN /\ out' = [out EXCEPT ![i] = Append(@, Line("Traceback", PyStr(<<"OpenAIError">>)))]
                 /\ pc' = [pc EXCEPT ![i] = "done"]
                 /\ exit' = [exit EXCEPT ![i] = exit_status(PyStr(<<"OpenAIError">>))]
            ELSE /\ out' = out
                 /\ pc' = [pc EXCEPT ![i] = "fetch"]
                 /\ exit' = exit
         /\ services' = [services EXCEPT ![i] = IF key = PyNone THEN @ ELSE [client |-> "OpenAI"]]
    /\ UNCHANGED <<unit, calls, resp, file, spans>>

\* SIGINT to the process.  While main() runs, the KeyboardInterrupt passes
\* every 'except Exception' and 'except requests.RequestException' of the
\* script and the 'except Exception' of the __main__ block; while the
\* module-level statements run, nothing is there to catch it
E01Interrupt(i) ==
    /\ unit = "e01" /\ Turn(i)
    /\ pc[i] \in {"import", "fetch", "ask", "submit", "report", "open"}
    /\ out' = [out EXCEPT ![i] = Append(@, Line("Traceback", PyStr(<<"KeyboardInterrupt">>)))]
    /\ pc' = [pc EXCEPT ![i] = "done"]
    /\ exit' = [exit EXCEPT ![i] = exit_status(PyStr(<<"KeyboardInterrupt">>))]
    /\ UNCHANGED <<unit, services, loc, calls, resp, file, spans>>

E01Fetch(i) ==
    /\ unit = "e01" /\ pc[i] = "fetch" /\ Turn(i)
    /\ \E rsp \in FetchResp01 :
         LET question == fetch_question(rsp) IN
         /\ calls' = [calls EXCEPT ![i] = Append(@, Call("fetch", PyNone, rsp))]
         /\ loc' = [loc EXCEPT ![i].question = question]
         /\ IF ~Truthy(question)
            THEN /\ out' = [out EXCEPT ![i] = @ \o fetch_question_says(rsp)
                                \o <<Line("Failed to fetch the question.", PyNone)>>]
                 /\ pc' = [pc EXCEPT ![i] = "done"]
                 /\ exit' = [exit EXCEPT ![i] = exit_status(PyNone)]
            ELSE /\ out' = [out EXCEPT ![i] = @ \o <<Line("Question fetched", question)>>]
                 /\ pc' = [pc EXCEPT ![i] = "ask"]
                 /\ exit' = exit
    /\ UNCHANGED <<unit, services, resp, file, spans>>

E01Ask(i) ==
    /\ unit = "e01" /\ pc[i] = "ask"
    /\ \E rsp \in LlmResp01 :
         LET answer == get_answer_from_llm(rsp) IN
         /\ calls' = [calls EXCEPT ![i] = Append(@, Call("llm", loc[i].question, rsp))]
         /\ loc' = [loc EXCEPT ![i].answer = answer]
         /\ IF ~Truthy(answer)
            THEN /\ out' = [out EXCEPT ![i] = @
                        \o (IF rsp.t = "OpenAIError"
                            THEN <<Line("Error querying OpenAI API", PyNone)>> ELSE <<>>)
                        \o <<Line("Failed to get an answer from the LLM.", PyNone)>>]
                 /\ pc' = [pc EXCEPT ![i] = "done"]
                 /\ exit' = [exit EXCEPT ![i] = exit_status(PyNone)]
            ELSE /\ out' = [out EXCEPT ![i] = @ \o <<Line("Answer", answer)>>]
                 /\ pc' = [pc EXCEPT ![i] = "submit"]
                 /\ exit' = exit
    /\ UNCHANGED <<unit, services, resp, file, spans>>

E01Submit(i) ==
    /\ unit = "e01" /\ pc[i] = "submit"
    /\ \E rsp \in LoginResp01 :
         LET login_response == login_to_system(rsp) IN
         /\ calls' = [calls EXCEPT ![i] =
                          Append(@, Call("submit", PyDict([answer |-> loc[i].answer]), rsp))]
         /\ loc' = [loc EXCEPT ![i].result = login_response]
         /\ IF ~Truthy(login_response)
            THEN /\ out' = [out EXCEPT ![i] = @ \o login_to_system_says(rsp)
                                \o <<Line("Login failed.", PyNone)>>]
                 /\ pc' = [pc EXCEPT ![i] = "done"]
                 /\ exit' = [exit EXCEPT ![i] = exit_status(PyNone)]
            ELSE /\ out' = [out EXCEPT ![i] = @ \o <<Line("Login successful.", PyNone)>>]
                 /\ pc' = [pc EXCEPT ![i] = "report"]
                 /\ exit' = exit
    /\ UNCHANGED <<unit, services, resp, file, spans>>

\* fetch_secret_data: the write of the temporary file, which can fail with an
\* OSError that nothing in main() catches: the __main__ block prints it and
\* calls sys.exit(1).  With the file written, webbrowser.open() is called
E01Report(i) ==
    /\ unit = "e01" /\ pc[i] = "report"
    /\ \E written \in BOOLEAN :
         /\ loc' = [loc EXCEPT ![i].tempfile = PyBool(written)]
         /\ IF written
            THEN /\ out' = out
                 /\ pc' = [pc EXCEPT ![i] = "open"]
                 /\ exit' = exit
            ELSE /\ out' = [out EXCEPT ![i] = Append(@, Line("[Error]", PyStr(<<"OSError">>)))]
                 /\ pc' = [pc EXCEPT ![i] = "done"]
                 /\ exit' = [exit EXCEPT ![i] = exit_status(PyStr(<<"OSError">>))]
    /\ UNCHANGED <<unit, services, calls, resp, file, spans>>

\* fetch_secret_data: webbrowser.open() returns, the URL and the contents
\* found are printed, and main() ends
E01Opened(i) ==
    /\ unit = "e01" /\ pc[i] = "open"
    /\ out' = [out EXCEPT ![i] = @ \o fetch_secret_data_says(loc[i].result)
                    \o <<Line("Secret data fetched successfully.", PyNone)>>]
    /\ pc' = [pc EXCEPT ![i] = "done"]
    /\ exit' = [exit EXCEPT ![i] = exit_status(PyNone)]
    /\ UNCHANGED <<unit, services, loc, calls, resp, file, spans>>

----------------------------------------------------------------------------
(* E02/e02.py *)

\* a dict / JSON object with the given keys
EmptyDict == PyDict([k \in {} |-> PyNone])

Bodies02 ==
    { JsonText(PyDict([msgID |-> PyInt(7), text |-> PyStr(<<"q1">>)])),
      JsonText(PyDict([msgID |-> PyInt(8), text |-> PyStr(<<"q2">>)])),
      JsonText(PyDict([msgID |-> PyInt(7)])),
      JsonText(PyDict([msgID |-> PyInt(9), text |-> PyStr(<<>>)])),
      JsonText(PyList(<<>>)),
      BadJsonText }
FetchResp02 == {NetErr} \cup {Http(s, b) : s \in Statuses, b \in Bodies02}

\* what a function call gives: a returned value, or an exception that it
\* does not catch itself
Return(v) == [raised |-> FALSE, val |-> v]
Raise(e) == [raised |-> TRUE, val |-> PyStr(<<e>>)]

\* initiate_conversation without its call of raise_for_status()
initiate_conversation_unchecked(rsp) ==
    IF rsp.t = "neterr" \/ ~rsp.body.valid
    THEN Return(<<PyInt(0), PyStr(<<>>)>>)
    ELSE IF rsp.body.val.t # "dict"
         THEN Raise("AttributeError")
         ELSE Return(<<Get(rsp.body.val, "msgID"), Get(rsp.body.val, "text")>>)

\* initiate_conversation: (msgID, text) of the parsed body; (0, "") when a
\* requests.RequestException is caught (transport error, raise_for_status(),
\* a body that is no JSON); data.get on a body that is no dict is not caught
initiate_conversation(rsp) ==
    IF rsp.t = "neterr" \/ raise_for_status(rsp) \/ ~rsp.body.valid
    THEN Return(<<PyInt(0), PyStr(<<>>)>>)
    ELSE IF rsp.body.val.t # "dict"
         THEN Raise("AttributeError")
         ELSE Return(<<Get(rsp.body.val, "msgID"), Get(rsp.body.val, "text")>>)

LlmResp02 == {OpenAIError} \cup {LlmText(s) : s \in {<<>>, <<"a1">>, <<"a2">>}}

query_openai02(rsp) ==
    IF rsp.t = "OpenAIError" THEN PyStr(<<>>) ELSE PyStr(rsp.out)

Bodies02Final ==
    { JsonText(PyDict([code |-> PyInt(0), text |-> PyStr(<<"{{FLG:X}}">>)])),
      JsonText(PyDict([code |-> PyInt(-1)])),
      JsonText(EmptyDict),
      JsonText(PyList(<<PyInt(1)>>)),
      BadJsonText }
SendResp02 == {NetErr} \cup {Http(s, b) : s \in Statuses, b \in Bodies02Final}

send_response(rsp) ==
    IF rsp.t = "neterr" \/ raise_for_status(rsp) \/ ~rsp.body.valid
    THEN EmptyDict
    ELSE rsp.body.val

\* a payload that repeats the msgID of the initial READY message
response_payload_zero(msgID, llm_response) == PyDict([text |-> llm_response, msgID |-> PyInt(0)])

\* response_payload of send_response
response_payload(msgID, llm_response) == PyDict([text |-> llm_response, msgID |-> msgID])

\* the module-level statements of e02.py: OpenAI(api_key=None) raises an
\* OpenAIError, with which the process ends before main() is called
E02Import(i) ==
    /\ unit = "e02" /\ pc[i] = "import" /\ Turn(i)
    /\ \E key \in {PyNone, PyStr(<<"sk">>)} :
         /\ loc' = [loc EXCEPT ![i].OPENAI_API_KEY = key]
         /\ IF key = PyNone
            THEN /\ out' = [out EXCEPT ![i] = Append(@, Line("Traceback", PyStr(<<"OpenAIError">>)))]
                 /\ pc' = [pc EXCEPT ![i] = "done"]
            ELSE /\ out' = out
                 /\ pc' = [pc EXCEPT ![i] = "fetch"]
         /\ services' = [services EXCEPT ![i] = IF key = PyNone THEN @ ELSE [client |-> "OpenAI"]]
    /\ UNCHANGED <<unit, calls, resp, file, spans, exit>>

E02Fetch(i) ==
    /\ unit = "e02" /\ pc[i] = "fetch" /\ Turn(i)
    /\ \E rsp \in FetchResp02 :
         LET r == initiate_conversation(rsp)
             payload == PyDict([text |-> PyStr(<<"READY">>), msgID |-> PyInt(0)])
         IN
         /\ calls' = [calls EXCEPT ![i] = Append(@, Call("fetch", payload, rsp))]
         /\ IF r.raised
            THEN /\ out' = [out EXCEPT ![i] = @ \o <<Line("Unexpected error", r.val)>>]
                 /\ pc' = [pc EXCEPT ![i] = "done"]
                 /\ loc' = loc
            ELSE /\ loc' = [loc EXCEPT ![i].msgID = r.val[1], ![i].question = r.val[2]]
                 /\ IF ~Truthy(r.val[2])
                    THEN /\ out' = [out EXCEPT ![i] = @ \o
                                <<Line("Failed to retrieve question. Exiting.", PyNone)>>]
                         /\ pc' = [pc EXCEPT ![i] = "done"]
                    ELSE /\ out' = out
                         /\ pc' = [pc EXCEPT ![i] = "ask"]
    /\ UNCHANGED <<unit, services, resp, file, spans, exit>>

E02Ask(i) ==
    /\ unit = "e02" /\ pc[i] = "ask"
    /\ \E rsp \in LlmResp02 :
         LET llm_response == query_openai02(rsp) IN
         /\ calls' = [calls EXCEPT ![i] = Append(@, Call("llm", loc[i].question, rsp))]
         /\ loc' = [loc EXCEPT ![i].answer = llm_response]
         /\ IF ~Truthy(llm_response)
            THEN /\ out' = [out EXCEPT ![i] = @ \o
                        <<Line("Failed to retrieve response from OpenAI. Exiting.", PyNone)>>]
                 /\ pc' = [pc EXCEPT ![i] = "done"]
            ELSE /\ out' = out
                 /\ pc' = [pc EXCEPT ![i] = "submit"]
    /\ UNCHANGED <<unit, services, resp, file, spans, exit>>

\* send_response, then the report of main(): hidden_phrase.get('text')
E02Submit(i) ==
    /\ unit = "e02" /\ pc[i] = "submit"
    /\ \E rsp \in SendResp02 :
         LET hidden_phrase == send_response(rsp)
             payload == response_payload(loc[i].msgID, loc[i].answer)
         IN
         /\ calls' = [calls EXCEPT ![i] = Append(@, Call("submit", payload, rsp))]
         /\ loc' = [loc EXCEPT ![i].result = hidden_phrase]
         /\ out' = [out EXCEPT ![i] = @ \o
               (IF ~Truthy(hidden_phrase)
                THEN <<Line("Failed to retrieve hidden phrase. Exiting.", PyNone)>>
                ELSE IF hidden_phrase.t # "dict"
                     THEN <<Line("Unexpected error", PyStr(<<"AttributeError">>))>>
                     ELSE <<Line("Hidden phrase retrieved successfully",
                                 Get(hidden_phrase, "text"))>>)]
         /\ pc' = [pc EXCEPT ![i] = "done"]
    /\ UNCHANGED <<unit, services, resp, file, spans, exit>>

----------------------------------------------------------------------------
(* E03/e03.py *)

Digit == [c \in {"0", "1", "2", "3", "4", "5"} |->
            CASE c = "0" -> 0 [] c = "1" -> 1 [] c = "2" -> 2
              [] c = "3" -> 3 [] c = "4" -> 4 [] c = "5" -> 5]

\* eval(question) for a question "x + y"
Eval(question) == PyInt(Digit[question.s[1]] + Digit[question.s[3]])

Item(f) == PyDict(f)
Docs03 ==
    { JsonText(PyDict(("test-data" :> PyList(<<
          Item([question |-> PyStr(<<"1", "+", "2">>), answer |-> PyInt(3)]),
          Item([question |-> PyStr(<<"2", "+", "2">>), answer |-> PyInt(5),
                test |-> PyDict([q |-> PyStr(<<"q1">>), a |-> PyStr(<<"???">>)])])>>)))),
      JsonText(PyDict(("test-data" :> PyList(<<
          Item([question |-> PyStr(<<"1", "+", "2">>), answer |-> PyInt(4)])>>)))),
      JsonText(EmptyDict),
      JsonText(PyList(<<>>)),
      BadJsonText }
DownloadResp03 == {NetErr} \cup {Http(s, b) : s \in Statuses, b \in Docs03}

\* download_file opening json.txt for appending: a second download leaves two
\* documents in the file, which is no JSON
download_file_append(rsp, old) ==
    IF rsp.t = "neterr" \/ raise_for_status(rsp)
    THEN [raised |-> TRUE, val |-> PyStr(<<"RequestException">>), file |-> old]
    ELSE [raised |-> FALSE, val |-> PyStr(<<"S01/E03/json.txt">>),
          file |-> IF old = PyNone THEN rsp.body ELSE BadJsonText]

\* download_file: the content of json.txt afterwards; the file is opened
\* for writing (and so replaced) only after raise_for_status() has passed
download_file(rsp, old) ==
    IF rsp.t = "neterr" \/ raise_for_status(rsp)
    THEN [raised |-> TRUE, val |-> PyStr(<<"RequestException">>), file |-> old]
    ELSE [raised |-> FALSE, val |-> PyStr(<<"S01/E03/json.txt">>), file |-> rsp.body]

\* parse_file_to_dict: json.load of the file's content
parse_file_to_dict(content) ==
    IF ~content.valid THEN Raise("JSONDecodeError") ELSE Return(content.val)

\* a process_test_data that keeps only the question and the answer of an item
process_item_bare(item) ==
    PyDict([k \in DOMAIN item.d \cap {"question", "answer"} |-> item.d[k]])


\* the body of the loop of process_test_data for one item
process_item(item) ==
    LET question == Get(item, "question")
        answer == Get(item, "answer")
    IN IF Truthy(question) /\ Truthy(answer) /\ ~PyEq(answer, Eval(question))
       THEN PyDict([k \in DOMAIN item.d |->
                        IF k = "answer" THEN Eval(question) ELSE item.d[k]])
       ELSE item

HasTest(item) == Truthy(Get(item, "test"))
TestQ(item) == Get(Get(item, "test"), "q")

\* data after the items of data["test-data"] have been rewritten in place:
\* test_data is that very list, unless the key is missing
WithTestData(data, test_data) ==
    IF "test-data" \in DOMAIN data.d
    THEN PyDict([data.d EXCEPT !["test-data"] = test_data])
    ELSE data

\* process_test_data: (test_data, question_to_llm)
process_test_data(data) ==
    IF data.t # "dict" THEN Raise("AttributeError")
    ELSE LET test_data == GetOr(data, "test-data", PyList(<<>>)) IN
         [raised |-> FALSE,
          val |-> <<PyList([k \in 1..Len(test_data.l) |-> process_item(test_data.l[k])]),
                    PyList([k \in 1..Len(SelectSeq(test_data.l, HasTest)) |->
                             TestQ(SelectSeq(test_data.l, HasTest)[k])])>>]

Answer(q, a) == PyDict([q |-> PyStr(<<q>>), a |-> PyStr(<<a>>)])
LlmResp03 ==
    { OpenAIError,
      LlmText(BadJsonText),
      LlmText(JsonText(PyNone)),
      LlmText(JsonText(PyList(<<>>))),
      LlmText(JsonText(EmptyDict)),
      LlmText(JsonText(Answer("q1", "Biden"))),
      LlmText(JsonText(PyList(<<Answer("q0", "no"), Answer("q1", "Biden")>>))) }

\* query_openai: None on OpenAIError; json.loads(completion.output_text) otherwise
query_openai03(rsp) ==
    IF rsp.t = "OpenAIError" THEN Return(PyNone)
    ELSE IF ~rsp.out.valid THEN Raise("JSONDecodeError")
    ELSE Return(rsp.out.val)

\* "test" in item and "q" in item["test"]
HasTestQ(item) == "test" \in DOMAIN item.d /\ "q" \in DOMAIN item.d.test.d

\* what "for answer in answers" walks through when answers is a list (its
\* elements) or a string (its characters)
Iter(x) ==
    CASE x.t = "list" -> x.l
      [] x.t = "str" -> [k \in 1..Len(x.s) |-> PyStr(<<x.s[k]>>)]

\* the entries of answers whose 'q' is the item's test question
Matches(item, answers) ==
    {k \in 1..Len(Iter(answers)) :
        /\ Iter(answers)[k].t = "dict"
        /\ PyEq(Get(Iter(answers)[k], "q"), item.d.test.d.q)}

\* the entries of answers that have no get(): answer.get("q") raises
NoGet(answers) == {k \in 1..Len(Iter(answers)) : Iter(answers)[k].t # "dict"}

\* the entries at which the inner loop of update_answers stops
Stops(item, answers) == Matches(item, answers) \cup NoGet(answers)

Max(S) == CHOOSE x \in S : \A y \in S : x >= y

\* item["test"]["a"] = value
SetTestA(item, value) ==
    PyDict([item.d EXCEPT !.test =
               PyDict([k \in DOMAIN @.d \cup {"a"} |-> IF k = "a" THEN value ELSE @.d[k]])])

\* update_answers without the break of its inner loop: the last matching entry
\* of answers is the one that stays
update_item_last(item, answers) ==
    IF HasTestQ(item) /\ answers.t \in {"list", "str"} /\ Matches(item, answers) # {}
    THEN SetTestA(item, Get(Iter(answers)[Max(Matches(item, answers))], "a"))
    ELSE item


\* the body of the outer loop of update_answers for one item: the first entry
\* of answers with the item's test question gives the value, then "break"
update_item(item, answers) ==
    IF /\ HasTestQ(item) /\ answers.t \in {"list", "str"}
       /\ Stops(item, answers) # {}
       /\ Min(Stops(item, answers)) \in Matches(item, answers)
    THEN SetTestA(item, Get(Iter(answers)[Min(Stops(item, answers))], "a"))
    ELSE item

\* the exception that the body of the outer loop raises for one item ("" for
\* none): TypeError when answers is not iterable; AttributeError when the
\* inner loop comes to an entry that is no object, which for an object in the
\* place of the list is its first key, whichever it is
update_item_raises(item, answers) ==
    IF ~HasTestQ(item) THEN ""
    ELSE IF answers.t \in {"dict", "odict"}
    THEN (IF \/ (answers.t = "dict" /\ DOMAIN answers.d = {})
             \/ (answers.t = "odict" /\ answers.items = <<>>)
          THEN "" ELSE "AttributeError")
    ELSE IF answers.t \notin {"list", "str"} THEN "TypeError"
    ELSE IF /\ Stops(item, answers) # {}
            /\ Min(Stops(item, answers)) \in NoGet(answers) THEN "AttributeError"
    ELSE ""

\* update_answers: the items are rewritten in place, one after the other, up
\* to the first item whose loop body raises; data is the list as it is left
update_answers(valid_data, answers) ==
    LET n == Len(valid_data.l)
        failing == {k \in 1..n : update_item_raises(valid_data.l[k], answers) # ""}
        upto == IF failing = {} THEN n ELSE Min(failing) - 1
        list == PyList([k \in 1..n |->
                          IF k <= upto THEN update_item(valid_data.l[k], answers)
                          ELSE valid_data.l[k]])
    IN IF failing = {}
       THEN [raised |-> FALSE, val |-> list, data |-> list]
       ELSE [raised |-> TRUE, data |-> list,
             val |-> PyStr(<<update_item_raises(valid_data.l[Min(failing)], answers)>>)]

\* a JSON object whose items keep their order: <<key, value>> pairs
PyODict(items) == [t |-> "odict", items |-> items]
Bodies03Report ==
    { JsonText(PyODict(<<
          <<"code", PyInt(0)>>, <<"message", PyStr(<<"{", "{", "F", "L", "G", ":", "X", "}", "}">>)>>,
          <<"note", PyStr(<<"F", "L", "G", "2">>)>> >>)),
      JsonText(PyODict(<< <<"code", PyInt(-1)>>, <<"message", PyStr(<<"n", "o">>)>> >>)),
      JsonText(PyODict(<<
          <<"code", PyInt(0)>>, <<"data", PyList(<<PyStr(<<"F", "L", "G">>)>>)>>,
          <<"note", PyStr(<<"F", "L", "G", "2">>)>> >>)),
      JsonText(PyList(<<>>)),
      JsonText(PyList(<<PyStr(<<"F", "L", "G">>)>>)),
      BadJsonText }
ReportResp03 == {NetErr} \cup {Http(s, b) : s \in Statuses, b \in Bodies03Report}

\* the characters of a string of the model, as one text
RECURSIVE TextOf(_)
TextOf(s) == IF s = <<>> THEN "" ELSE Head(s) \o TextOf(Tail(s))

\* "FLG" in text
InText(text) == \E k \in 1..(Len(text) - 2) : SubSeq(text, k, k + 2) = "FLG"

\* "FLG" in str(value): str() of a list or of an object is the repr of its
\* parts with punctuation between them, and repr leaves the letters of a
\* string or of a key side by side; str() of a number, of None, of True and of
\* False holds no 'FLG'
RECURSIVE HasFLG(_)
HasFLG(value) ==
    CASE value.t = "str" -> InText(TextOf(value.s))
      [] value.t = "list" -> \E k \in 1..Len(value.l) : HasFLG(value.l[k])
      [] value.t = "odict" ->
            \E k \in 1..Len(value.items) :
                InText(value.items[k][1]) \/ HasFLG(value.items[k][2])
      [] value.t = "dict" ->
            \E key \in DOMAIN value.d : InText(key) \/ HasFLG(value.d[key])
      [] OTHER -> FALSE

\* send_report taking the last value with 'FLG' instead of the first
send_report_last(rsp) ==
    IF rsp.t = "neterr" \/ raise_for_status(rsp) \/ ~rsp.body.valid
    THEN Raise("RequestException")
    ELSE IF rsp.body.val.t # "odict"
    THEN Raise("AttributeError")
    ELSE LET items == rsp.body.val.items
             hits == {k \in 1..Len(items) : HasFLG(items[k][2])}
         IN IF hits # {} /\ Truthy(items[Max(hits)][2])
            THEN Return(Line("Found phrase with 'FLG'", items[Max(hits)][2]))
            ELSE Return(Line("No phrase with 'FLG' found in the response.", PyNone))


\* send_report: the exception it raises, or the line it logs.  A network
\* error, a status of 400 or more and a body that is no JSON raise a
\* requests.RequestException; response_data.items() of a JSON value that is
\* no object raises an AttributeError
send_report(rsp) ==
    IF rsp.t = "neterr" \/ raise_for_status(rsp) \/ ~rsp.body.valid
    THEN Raise("RequestException")
    ELSE IF rsp.body.val.t # "odict"
    THEN Raise("AttributeError")
    ELSE LET items == rsp.body.val.items
             hits == {k \in 1..Len(items) : HasFLG(items[k][2])}
         IN IF hits # {} /\ Truthy(items[Min(hits)][2])
            THEN Return(Line("Found phrase with 'FLG'", items[Min(hits)][2]))
            ELSE Return(Line("No phrase with 'FLG' found in the response.", PyNone))

\* a main() that starts over after an error instead of ending
Abort03_retry(i, e) ==
    /\ out' = [out EXCEPT ![i] = @ \o <<Line("An error occurred", e)>>]
    /\ pc' = [pc EXCEPT ![i] = "fetch"]


\* main(): except Exception as exc: the error is logged and main() ends
Abort03(i, e) ==
    /\ out' = [out EXCEPT ![i] = @ \o <<Line("An error occurred", e)>>]
    /\ pc' = [pc EXCEPT ![i] = "done"]

\* main(): download_file, parse_file_to_dict, process_test_data
\* the module-level statements of e03.py: OpenAI(api_key=None) raises an
\* OpenAIError, with which the process ends before main() is called
E03Import(i) ==
    /\ unit = "e03" /\ pc[i] = "import" /\ Turn(i)
    /\ \E key \in {PyNone, PyStr(<<"sk">>)} :
         /\ loc' = [loc EXCEPT ![i].OPENAI_API_KEY = key]
         /\ IF key = PyNone
            THEN /\ out' = [out EXCEPT ![i] = Append(@, Line("Traceback", PyStr(<<"OpenAIError">>)))]
                 /\ pc' = [pc EXCEPT ![i] = "done"]
            ELSE /\ out' = out
                 /\ pc' = [pc EXCEPT ![i] = "fetch"]
         /\ services' = [services EXCEPT ![i] = IF key = PyNone THEN @ ELSE [client |-> "OpenAI"]]
    /\ UNCHANGED <<unit, calls, resp, file, spans, exit>>

E03DownloadFrom(i, responses) ==
    /\ unit = "e03" /\ pc[i] = "fetch" /\ Turn(i)
    /\ \E rsp \in responses :
         LET dl == download_file(rsp, file)
             parsed == parse_file_to_dict(dl.file)
             processed == process_test_data(parsed.val)
         IN
         /\ calls' = [calls EXCEPT ![i] = Append(@, Call("fetch", PyNone, rsp))]
         /\ file' = dl.file
         /\ IF dl.raised THEN Abort03(i, dl.val) /\ loc' = loc
            ELSE IF parsed.raised
                 THEN Abort03(i, parsed.val) /\ loc' = [loc EXCEPT ![i].path = dl.val]
            ELSE IF processed.raised
                 THEN /\ Abort03(i, processed.val)
                      /\ loc' = [loc EXCEPT ![i].path = dl.val, ![i].data = parsed.val]
            ELSE /\ loc' = [loc EXCEPT ![i].path = dl.val,
                                       ![i].data = WithTestData(parsed.val, processed.val[1]),
                                       ![i].valid_data = processed.val[1],
                                       ![i].question_to_llm = processed.val[2]]
                 /\ pc' = [pc EXCEPT ![i] = "ask"]
                 /\ out' = out
    /\ UNCHANGED <<unit, services, resp, spans, exit>>

E03Download(i) == E03DownloadFrom(i, DownloadResp03)

\* main(): query_openai, update_answers
E03AskFrom(i, responses) ==
    /\ unit = "e03" /\ pc[i] = "ask"
    /\ \E rsp \in responses :
         LET answers == query_openai03(rsp)
             updated == update_answers(loc[i].valid_data, answers.val)
         IN
         /\ calls' = [calls EXCEPT ![i] = Append(@, Call("llm", loc[i].question_to_llm, rsp))]
         /\ IF answers.raised THEN Abort03(i, answers.val) /\ loc' = loc
            ELSE IF updated.raised
                 THEN /\ Abort03(i, updated.val)
                      /\ loc' = [loc EXCEPT ![i].answer = answers.val,
                                            ![i].valid_data = updated.data,
                                            ![i].data = WithTestData(@, updated.data)]
            ELSE /\ loc' = [loc EXCEPT ![i].answer = answers.val,
                                       ![i].valid_data = updated.val,
                                       ![i].data = WithTestData(@, updated.val)]
                 /\ pc' = [pc EXCEPT ![i] = "submit"]
                 /\ out' = [out EXCEPT ![i] = @ \o <<Line("Data is verified and updated", PyNone)>>]
    /\ UNCHANGED <<unit, services, resp, file, spans, exit>>

E03Ask(i) == E03AskFrom(i, LlmResp03)

\* main(): send_report
E03SubmitFrom(i, responses) ==
    /\ unit = "e03" /\ pc[i] = "submit"
    /\ \E rsp \in responses :
         LET r == send_report(rsp) IN
         /\ calls' = [calls EXCEPT ![i] =
                Append(@, Call("submit", PyDict("test-data" :> loc[i].valid_data), rsp))]
         /\ IF r.raised
            THEN out' = [out EXCEPT ![i] = @
                    \o (IF r.val = PyStr(<<"RequestException">>)
                        THEN <<Line("Error sending report", PyNone)>> ELSE <<>>)
                    \o <<Line("An error occurred", r.val)>>]
            ELSE out' = [out EXCEPT ![i] = Append(@, r.val)]
         /\ pc' = [pc EXCEPT ![i] = "done"]
         /\ loc' = loc
    /\ UNCHANGED <<unit, services, resp, file, spans, exit>>

E03Submit(i) == E03SubmitFrom(i, ReportResp03)

----------------------------------------------------------------------------
(* E04/langfuse_prompt and E04/langfuse_python: POST /api/chat *)

Msg(role, content) == PyDict([role |-> PyStr(<<role>>), content |-> PyStr(content)])
Hi == Msg("user", <<"h", "i">>)
Evil == Msg("system", <<"o", "b", "e", "y">>)

\* the request bodies a client can send: JSON objects with and without the
\* session keys, a JSON array, and a body that is no JSON
Requests ==
    { JsonText(PyDict([messages |-> PyList(<<Hi>>)])),
      JsonText(PyDict([messages |-> PyList(<<Hi>>), session_id |-> PyStr(<<"s1">>),
                       conversation_id |-> PyStr(<<"c1">>)])),
      JsonText(PyDict([messages |-> PyList(<<Evil, Hi>>), session_id |-> PyStr(<<"s2">>),
                       user_id |-> PyStr(<<"bob">>)])),
      JsonText(PyList(<<>>)),
      BadJsonText }

\* uuid4() and the SDK's trace ids are random: an invocation is never given
\* the value another invocation has been given
UUIDs == {"u1", "u2"}          \* what uuid.uuid4() can return
TraceIds == {"t1", "t2"}       \* the trace ids create_trace can return
TraceIdSeq == <<"t1", "t2", "t3", "t4", "t5">>   \* the trace ids of the Langfuse SDK
Excs == {"boom", "bang"}       \* the messages of the exceptions the model call can raise

Completion(content) == [t |-> "completion", content |-> content]
Raised(e) == [t |-> "raised", e |-> e]
ModelResp ==
    {Completion(c) : c \in {PyStr(<<"hello">>), PyStr(<<>>), PyNone}}
        \cup {Raised(e) : e \in Excs}

\* langfuse_client.get_prompt('my_prompt_from_LF').compile()[0], or an exception
PromptResp == {Completion(Msg("system", <<"LF">>)), Raised("prompt not found")}

GenericError == PyDict([error |-> PyStr(<<"An error occurred while processing your request">>)])
Json(status, body) == [status |-> status, kind |-> "json", body |-> body]
\* the page Flask itself answers with when no handler takes the exception
Html(status) == [status |-> status, kind |-> "html", body |-> PyNone]

\* [msg for msg in messages if msg.get('role') != 'system']
NotSystem(msg) == Get(msg, "role") # PyStr(<<"system">>)
NonSystem(l) == SelectSeq(l, NotSystem)

\* data.get('session_id', str(uuid.uuid4())) / data.get('conversation_id', ...)
SessionKey == IF unit = "prompt" THEN "session_id" ELSE "conversation_id"
\* a handler that always takes the generated identifier
session_of_fresh(data, u) == PyStr(<<u>>)


session_of(data, u) == GetOr(data, SessionKey, PyStr(<<u>>))

TraceInputLen == 45
\* messages[-1]['content'][:45] if messages else ''
trace_input(messages) ==
    IF messages = <<>> THEN PyStr(<<>>)
    ELSE LET c == messages[Len(messages)].d.content.s IN
         PyStr(SubSeq(c, 1, IF Len(c) < TraceInputLen THEN Len(c) ELSE TraceInputLen))

\* the module-level objects of the unit: app and the service objects of a
\* Flask unit, built at import; those of the processes of a script, none
\* before the statement client = OpenAI(...) has run
ServiceObjects ==
    CASE unit = "prompt" ->
            [app |-> "Flask", langfuse_service |-> "LangfuseService",
             openai_service |-> "OpenAIService", assistant_service |-> "AssistantService"]
      [] unit = "python" ->
            [app |-> "Flask", chat_service |-> "ChatService",
             langfuse_service |-> "LangfuseService"]
      [] OTHER -> [i \in Inv |-> [name \in {} |-> ""]]

\* a chat() that keeps its data in module-level variables set by the first request
frame_shared(i) == loc[1]


\* the local variables of chat(): each call of the handler has its own
frame(i) == loc[i]

Done(i, r) ==
    /\ resp' = [resp EXCEPT ![i] = r]
    /\ pc' = [pc EXCEPT ![i] = "done"]

\* The Langfuse SDK.  An entry of spans[i] is something invocation i did with
\* it: the start or end of a span, an update of a span or of its trace, a
\* flush; the model call is entered too, to place it among them.
Ev(ev, name, trace, val) == [ev |-> ev, name |-> name, trace |-> trace, val |-> val]

\* the SDK draws a new id for every trace it starts: one that this invocation
\* has not met yet.  Which one it is matters only for the id that leaves the
\* handler (the trace_id of langfuse_python, drawn from TraceIds); for the
\* others the first unused id stands for all of them.
Fresh(log) ==
    LET unused == {n \in 1..Len(TraceIdSeq) :
                     \A k \in 1..Len(log) : log[k].trace # TraceIdSeq[n]}
    IN {TraceIdSeq[Min(unused)]}

\* start_as_current_span / start_as_current_generation, entered while the spans
\* of ctx are current (innermost last): the new span is a child of the current
\* span, in its trace; with no current span it is the root of a new trace, tid
start_as_current_span(ctx, name, tid) ==
    IF ctx = <<>> THEN Ev("start", name, tid, PyNone)
    ELSE Ev("start", name, ctx[Len(ctx)].trace, PyStr(<<ctx[Len(ctx)].name>>))

\* the exit of the with block: the span ends and is no longer current
end_span(sp) == Ev("end", sp.name, sp.trace, PyNone)

\* span.update_trace(...): sets attributes of the trace the span belongs to
update_trace(sp, fields) == Ev("update_trace", sp.name, sp.trace, fields)

Ended(log, name) == \E k \in 1..Len(log) : log[k].ev = "end" /\ log[k].name = name

\* span.update(...): a span that has ended is no longer recording, and what is
\* set on it is dropped
update(log, sp, fields) ==
    IF Ended(log, sp.name) THEN Ev("update_dropped", sp.name, sp.trace, fields)
    ELSE Ev("update", sp.name, sp.trace, fields)

\* the model call, as an entry of spans[i]
ModelCall == Ev("call", "completion", "", PyNone)
Flush == Ev("flush", "", "", PyNone)

\* the spans that are current in this invocation's context, innermost last:
\* those entered and not yet left
Current(log) == SelectSeq(log, LAMBDA e : e.ev = "start" /\ ~Ended(log, e.name))

\* langfuse_prompt LangfuseService.create_trace
create_trace_prompt(log, options, tid) ==
    LET main_trace == start_as_current_span(Current(log), options.d.name.s[1], tid) IN
    log \o << main_trace,
              update_trace(main_trace, PyDict([session_id |-> Get(options, "session_id"),
                                              user_id |-> Get(options, "user_id")])),
              end_span(main_trace) >>

\* langfuse_prompt LangfuseService.finalize_trace up to its call of flush():
\* options holds name, session_id, user_id and the input and output set on the
\* trace; the span stays open while flush() waits
finalize_trace_prompt(log, options, tid) ==
    LET span == start_as_current_span(Current(log), options.d.name.s[1], tid) IN
    log \o << span, update_trace(span, options) >>

\* a finalize_trace that leaves its with block without having flushed
finalize_trace_unflushed(log) ==
    log \o << end_span(Current(log)[Len(Current(log))]) >>


\* langfuse_prompt LangfuseService.finalize_trace from the return of flush()
\* on: the with block is left
finalize_trace_flushed(log) ==
    log \o << Flush, end_span(Current(log)[Len(Current(log))]) >>

\* AssistantService.answer, from its try up to the model call: the span for the
\* generation, the generation inside it, the model call entered inside both
answer_enter(log, session_id, user_id, tid) ==
    LET span_g == start_as_current_span(Current(log), "Span for Generation", tid)
        log1 == log \o << span_g,
                          update_trace(span_g, PyDict([session_id |-> session_id,
                                                      user_id |-> user_id])) >>
        gen == start_as_current_span(Current(log1), "here_i_call_llm", tid)
    IN log1 \o <<gen, ModelCall>>

\* AssistantService.answer, from the return of the model call on: the output
\* is set on the generation and both with blocks are left; an exception of the
\* model call leaves them at once
answer_leave(log, m) ==
    LET gen == Current(log)[Len(Current(log))]
        span_g == Current(log)[Len(Current(log)) - 1]
    IN IF m.t = "raised"
       THEN log \o <<end_span(gen), end_span(span_g)>>
       ELSE log \o << update(log, gen, PyDict([output |-> m.content])),
                      end_span(gen), end_span(span_g) >>

\* langfuse_python LangfuseService.create_trace; it returns span.trace_id
create_trace_python(log, options, tid) ==
    LET span == start_as_current_span(Current(log), options.d.name.s[1], tid) IN
    log \o << span,
              update_trace(span, PyDict([session_id |-> options.d.session_id,
                                        user_id |-> Get(options, "user_id")])),
              end_span(span) >>

\* langfuse_python LangfuseService.create_span: "return span" leaves the with
\* block, so the span it returns has ended
create_span_python(log, name, input, tid) ==
    LET span == start_as_current_span(Current(log), name, tid) IN
    IF input # PyNone
    THEN log \o << span, update(Append(log, span), span, PyDict([input |-> input])),
                   end_span(span) >>
    ELSE log \o << span, end_span(span) >>

\* langfuse_python LangfuseService.finalize_span
finalize_span_python(log, all_messages, output, tid) ==
    LET generation == start_as_current_span(Current(log), "llm-call", tid) IN
    log \o << generation,
              update(Append(log, generation), generation, PyDict([output |-> output.content])),
              end_span(generation) >>

\* langfuse_python LangfuseService.finalize_trace up to its call of flush()
finalize_trace_python(log, original_messages, generated_responce, tid) ==
    LET span == start_as_current_span(Current(log), "finalize-trace", tid) IN
    log \o << span,
              update_trace(span, PyDict([input |-> PyList(NonSystem(original_messages.l)),
                                        output |-> generated_responce])),
              end_span(span) >>

\* langfuse_prompt chat(): the lines before the try
PromptRecv(i) ==
    /\ unit = "prompt" /\ pc[i] = "recv"
    /\ \E body \in Requests, u \in UUIDs \ {loc[j].uuid4.s[1] : j \in {k \in Inv : loc[k].uuid4 # PyNone}} :
         IF ~body.valid
         THEN Done(i, Html(400)) /\ loc' = [loc EXCEPT ![i].request = body]
         ELSE IF body.val.t # "dict"
         THEN Done(i, Html(500)) /\ loc' = [loc EXCEPT ![i].request = body]
         ELSE /\ loc' = [loc EXCEPT ![i].request = body,
                                    ![i].data = body.val,
                                    ![i].uuid4 = PyStr(<<u>>),
                                    ![i].session_id = session_of(body.val, u),
                                    ![i].user_id = GetOr(body.val, "user_id", PyStr(<<"test_user">>)),
                                    ![i].messages =
                                        PyList(NonSystem(GetOr(body.val, "messages", PyList(<<>>)).l))]
              /\ pc' = [pc EXCEPT ![i] = "trace"]
              /\ resp' = resp
    /\ UNCHANGED <<unit, services, calls, out, file, spans, exit>>

PromptTrace(i) ==
    /\ unit = "prompt" /\ pc[i] = "trace"
    /\ calls' = [calls EXCEPT ![i] = Append(@, Call("create_trace",
            PyDict([name |-> PyStr(<<"Main trace creation">>),
                    input |-> trace_input(loc[i].messages.l),
                    session_id |-> loc[i].session_id,
                    user_id |-> loc[i].user_id]), PyNone))]
    /\ \E tid \in Fresh(spans[i]) :
         spans' = [spans EXCEPT ![i] = create_trace_prompt(@,
            PyDict([name |-> PyStr(<<"Main trace creation">>),
                    input |-> trace_input(loc[i].messages.l),
                    session_id |-> loc[i].session_id,
                    user_id |-> loc[i].user_id]), tid)]
    /\ pc' = [pc EXCEPT ![i] = "answer"]
    /\ UNCHANGED <<unit, services, loc, out, resp, file, exit>>

\* AssistantService.answer: the thread sent to the model
thread_of(system_message, messages) == <<system_message>> \o NonSystem(messages)

\* AssistantService.answer: get_prompt returns (or raises), the thread is
\* built, the spans are entered and the model is called
PromptAnswer(i) ==
    /\ unit = "prompt" /\ pc[i] = "answer"
    /\ \E p \in PromptResp, tid \in Fresh(spans[i]) :
         IF p.t = "raised"
         THEN /\ calls' = [calls EXCEPT ![i] = Append(@, Call("get_prompt", PyNone, p))]
              /\ Done(i, Json(500, GenericError))
              /\ loc' = loc
              /\ spans' = spans
         ELSE /\ spans' = [spans EXCEPT ![i] =
                    answer_enter(@, loc[i].session_id, loc[i].user_id, tid)]
              /\ calls' = [calls EXCEPT ![i] = @ \o
                    << Call("get_prompt", PyNone, p),
                       Call("create_span", PyStr(<<"Span for Generation">>), PyNone) >>]
              /\ loc' = [loc EXCEPT ![i].all_messages =
                            PyList(thread_of(p.content, loc[i].messages.l))]
              /\ pc' = [pc EXCEPT ![i] = "llm"]
              /\ resp' = resp
    /\ UNCHANGED <<unit, services, out, file, exit>>

\* AssistantService.answer: openai_service.completion returns or raises
PromptCompletion(i) ==
    /\ unit = "prompt" /\ pc[i] = "llm"
    /\ \E m \in ModelResp :
         /\ spans' = [spans EXCEPT ![i] = answer_leave(@, m)]
         /\ calls' = [calls EXCEPT ![i] = Append(@, Call("llm", loc[i].all_messages, m))]
         /\ IF m.t = "raised"
            THEN Done(i, Json(500, GenericError)) /\ loc' = loc
            ELSE /\ loc' = [loc EXCEPT ![i].completion = m.content]
                 /\ pc' = [pc EXCEPT ![i] = "finalize"]
                 /\ resp' = resp
    /\ UNCHANGED <<unit, services, out, file, exit>>

\* chat(): finalize_trace, up to its call of flush()
PromptFinalize(i) ==
    /\ unit = "prompt" /\ pc[i] = "finalize"
    /\ calls' = [calls EXCEPT ![i] = Append(@, Call("finalize_trace",
            PyDict([session_id |-> loc[i].session_id,
                    user_id |-> loc[i].user_id,
                    input |-> PyList(NonSystem(loc[i].messages.l)),
                    output |-> loc[i].completion]), PyNone))]
    /\ \E tid \in Fresh(spans[i]) :
         spans' = [spans EXCEPT ![i] = finalize_trace_prompt(@,
            PyDict([name |-> PyStr(<<"Main trace finalization">>),
                    session_id |-> loc[i].session_id,
                    user_id |-> loc[i].user_id,
                    input |-> PyList(NonSystem(loc[i].messages.l)),
                    output |-> loc[i].completion]), tid)]
    /\ pc' = [pc EXCEPT ![i] = "flush"]
    /\ UNCHANGED <<unit, services, loc, out, resp, file, exit>>

\* chat(): flush() returns, finalize_trace ends and the response is returned
PromptFlushed(i) ==
    /\ unit = "prompt" /\ pc[i] = "flush"
    /\ spans' = [spans EXCEPT ![i] = finalize_trace_flushed(@)]
    /\ Done(i, Json(200, PyDict([response |-> frame(i).completion,
                                 session_id |-> frame(i).session_id])))
    /\ UNCHANGED <<unit, services, loc, calls, out, file, exit>>

\* middleware/error_handler.py, registered for Exception
error_handler == Json(500, GenericError)

\* langfuse_python chat(): except Exception as exc: jsonify({'error': str(exc)}), 500
chat_except(e) == Json(500, PyDict([error |-> PyStr(<<e>>)]))

SystemMsgPy ==
    PyDict([role |-> PyStr(<<"system">>), content |-> PyStr(<<"You are a helpful assistant.">>),
            name |-> PyStr(<<"Norika">>)])

\* the server runs: graceful_shutdown has not ended the process
Running == \A j \in Inv : exit[j] = PyNone

\* SIGINT has come and graceful_shutdown has been entered
Interrupted == \E j \in Inv : Said(j, "Graceful shutdown initiated.")

\* langfuse_python chat(): request.get_json() and the data.get lines
PythonRecv(i) ==
    /\ unit = "python" /\ pc[i] = "recv" /\ Running
    /\ \E body \in Requests, u \in UUIDs \ {loc[j].uuid4.s[1] : j \in {k \in Inv : loc[k].uuid4 # PyNone}} :
         IF ~body.valid \/ body.val.t # "dict"
         THEN Done(i, error_handler) /\ loc' = [loc EXCEPT ![i].request = body]
         ELSE /\ loc' = [loc EXCEPT ![i].request = body,
                                    ![i].data = body.val,
                                    ![i].uuid4 = PyStr(<<u>>),
                                    ![i].session_id = session_of(body.val, u),
                                    ![i].user_id = GetOr(body.val, "user_id", PyStr(<<"unknown">>)),
                                    ![i].messages = GetOr(body.val, "messages", PyList(<<>>))]
              /\ pc' = [pc EXCEPT ![i] = "trace"]
              /\ resp' = resp
    /\ UNCHANGED <<unit, services, calls, out, file, spans, exit>>

PythonTrace(i) ==
    /\ unit = "python" /\ pc[i] = "trace" /\ Running
    /\ \E tid \in TraceIds \ {loc[j].trace_id.s[1] : j \in {k \in Inv : loc[k].trace_id # PyNone}} :
         /\ calls' = [calls EXCEPT ![i] = Append(@, Call("create_trace",
                PyDict([name |-> PyStr(<<"Chaty-Chat">>),
                        session_id |-> loc[i].session_id,
                        user_id |-> loc[i].user_id]), PyStr(<<tid>>)))]
         /\ loc' = [loc EXCEPT ![i].trace_id = PyStr(<<tid>>)]
         /\ spans' = [spans EXCEPT ![i] = create_trace_python(@,
                PyDict([name |-> PyStr(<<"Chaty-Chat">>),
                        session_id |-> loc[i].session_id,
                        user_id |-> loc[i].user_id]), tid)]
    /\ pc' = [pc EXCEPT ![i] = "answer"]
    /\ UNCHANGED <<unit, services, out, resp, file, exit>>

\* all_messages = [*system_messages, *user_messages]
all_messages_of(user_messages) == <<SystemMsgPy>> \o user_messages

\* the span that create_span returned to chat()
main_span_of(log) ==
    SelectSeq(log, LAMBDA e : e.ev = "start" /\ e.name = "Main Completion")[1]

\* chat(): all_messages, create_span, and the call of chat_service.completion
PythonCompletion(i) ==
    /\ unit = "python" /\ pc[i] = "answer" /\ Running
    /\ \E tid \in Fresh(spans[i]) :
         LET all_messages == all_messages_of(loc[i].messages.l) IN
         /\ spans' = [spans EXCEPT ![i] =
                Append(create_span_python(@, "Main Completion", PyList(all_messages), tid),
                       ModelCall)]
         /\ calls' = [calls EXCEPT ![i] =
                Append(@, Call("create_span", PyList(all_messages), PyNone))]
         /\ loc' = [loc EXCEPT ![i].all_messages = PyList(all_messages),
                               ![i].generated_response = PyList(<<>>)]
    /\ pc' = [pc EXCEPT ![i] = "llm"]
    /\ UNCHANGED <<unit, services, out, resp, file, exit>>

\* chat(): chat_service.completion returns, then finalize_span and
\* main_span.update(output=...); or it raises, then main_span.update(error=...)
\* and the outer except answers
PythonCompleted(i) ==
    /\ unit = "python" /\ pc[i] = "llm" /\ Running
    /\ \E m \in ModelResp, tid \in Fresh(spans[i]) :
         LET finalized == finalize_span_python(spans[i], loc[i].all_messages, m, tid)
             main_span == main_span_of(spans[i])
         IN
         IF m.t = "raised"
         THEN /\ spans' = [spans EXCEPT ![i] =
                    Append(@, update(@, main_span, PyDict([error |-> PyStr(<<m.e>>)])))]
              /\ calls' = [calls EXCEPT ![i] = Append(@, Call("llm", loc[i].all_messages, m))]
              /\ Done(i, chat_except(m.e))
              /\ loc' = loc
         ELSE /\ spans' = [spans EXCEPT ![i] =
                    Append(finalized, update(finalized, main_span, PyDict([output |-> m.content])))]
              /\ calls' = [calls EXCEPT ![i] = @ \o
                    << Call("llm", loc[i].all_messages, m),
                       Call("finalize_span", loc[i].all_messages, PyNone) >>]
              /\ loc' = [loc EXCEPT ![i].completion = m.content,
                                    ![i].all_messages = PyList(Append(@.l, m.content)),
                                    ![i].generated_response = PyList(<<m.content>>)]
              /\ pc' = [pc EXCEPT ![i] = "finalize"]
              /\ resp' = resp
    /\ UNCHANGED <<unit, services, out, file, exit>>

\* chat(): finalize_trace, up to its call of flush()
PythonFinalize(i) ==
    /\ unit = "python" /\ pc[i] = "finalize" /\ Running
    /\ calls' = [calls EXCEPT ![i] = Append(@, Call("finalize_trace",
            PyDict([input |-> PyList(NonSystem(loc[i].messages.l)),
                    output |-> loc[i].generated_response]), PyNone))]
    /\ \E tid \in Fresh(spans[i]) :
         spans' = [spans EXCEPT ![i] =
            finalize_trace_python(@, loc[i].messages, loc[i].generated_response, tid)]
    /\ pc' = [pc EXCEPT ![i] = "flush"]
    /\ UNCHANGED <<unit, services, loc, out, resp, file, exit>>

\* chat(): flush() returns, finalize_trace ends and the response is returned
PythonFlushed(i) ==
    /\ unit = "python" /\ pc[i] = "flush" /\ Running
    /\ spans' = [spans EXCEPT ![i] = Append(@, Flush)]
    /\ Done(i, Json(200, PyDict([completion |-> frame(i).completion,
                                 conversation_id |-> frame(i).session_id,
                                 trace_id |-> frame(i).trace_id])))
    /\ UNCHANGED <<unit, services, loc, calls, out, file, exit>>

\* how many times SIGINT is sent to the server
MaxSigints == 2

\* graceful_shutdown, the handler of SIGINT: it calls langfuse_service.shutdown(),
\* which waits until the SDK has sent what it holds.  A SIGINT that comes
\* while the handler waits enters the handler again, which logs its lines
\* again.  The log of the process is one: its lines are entered in out[j] for
\* every j.
PythonSigint ==
    /\ unit = "python" /\ Running
    /\ Len(SelectSeq(out[1], LAMBDA ln : ln.msg = "Graceful shutdown initiated.")) < MaxSigints
    /\ out' = [j \in Inv |-> out[j] \o <<Line("Graceful shutdown initiated.", PyNone),
                                        Line("Shutting down Langfuse client.", PyNone)>>]
    /\ UNCHANGED <<unit, services, pc, loc, calls, resp, file, spans, exit>>

\* graceful_shutdown: shutdown() returns in the handler entered last, and
\* exit(0) ends the process, and with it the handlers entered before and the
\* requests that are in progress
PythonExit ==
    /\ unit = "python" /\ Running /\ Interrupted
    /\ out' = [j \in Inv |-> Append(out[j], Line("Langfuse client shut down", PyNone))]
    /\ exit' = [j \in Inv |-> PyInt(0)]
    /\ UNCHANGED <<unit, services, pc, loc, calls, resp, file, spans>>

----------------------------------------------------------------------------

\* a json.txt left in S01/E03 by an earlier run
StaleFile == JsonText(PyDict("test-data" :> PyList(<<>>)))

\* A script is a process that has not yet run its module-level statements; a
\* Flask unit is a server whose module has been imported and which has
\* received no request
Init ==
    /\ unit \in Pipelines \cup FlaskUnits
    /\ pc = [i \in Inv |-> IF unit \in Pipelines THEN "import" ELSE "recv"]
    /\ loc = [i \in Inv |-> NoLocals]
    /\ calls = [i \in Inv |-> <<>>]
    /\ out = [i \in Inv |-> <<>>]
    /\ resp = [i \in Inv |-> PyNone]
    /\ file \in (IF unit = "e03" THEN {PyNone, StaleFile} ELSE {PyNone})
    /\ spans = [i \in Inv |-> <<>>]
    /\ exit = [i \in Inv |-> PyNone] /\ services = ServiceObjects

Next ==
    \E i \in Inv :
        \/ E01Import(i) \/ E01Interrupt(i)
        \/ E01Fetch(i) \/ E01Ask(i) \/ E01Submit(i) \/ E01Report(i) \/ E01Opened(i)
        \/ E02Import(i) \/ E02Fetch(i) \/ E02Ask(i) \/ E02Submit(i)
        \/ E03Import(i) \/ E03Download(i) \/ E03Ask(i) \/ E03Submit(i)
        \/ PromptRecv(i) \/ PromptTrace(i) \/ PromptAnswer(i) \/ PromptCompletion(i)
        \/ PromptFinalize(i) \/ PromptFlushed(i)
        \/ PythonRecv(i) \/ PythonTrace(i) \/ PythonCompletion(i) \/ PythonCompleted(i)
        \/ PythonFinalize(i) \/ PythonFlushed(i)
        \/ PythonSigint \/ PythonExit

Spec == Init /\ [][Next]_vars

\* The pipeline scripts alone.  Every external call returns or fails, so a
\* step that can be taken is taken: the interpreter runs main() to its end.
InitLive == Init /\ unit \in Pipelines
NextLive ==
    \E i \in Inv :
        \/ E01Import(i) \/ E01Interrupt(i)
        \/ E01Fetch(i) \/ E01Ask(i) \/ E01Submit(i) \/ E01Report(i) \/ E01Opened(i)
        \/ E02Import(i) \/ E02Fetch(i) \/ E02Ask(i) \/ E02Submit(i)
        \/ E03Import(i) \/ E03Download(i) \/ E03Ask(i) \/ E03Submit(i)
SpecLive == InitLive /\ [][NextLive]_vars /\ WF_vars(NextLive)

----------------------------------------------------------------------------
(* fetch_secret_data on every short response text: e01 has logged in (the  *)
(* first three steps of main() are behind it) and the login response holds *)
(* an arbitrary text over the alphabet.                                    *)

MaxTextLen == 8
Alphabet == {"{", "}", "a", "\n"}
Texts == UNION {[1..n -> Alphabet] : n \in 0..MaxTextLen}

LoggedIn(txt) ==
    LET page == Http(200, Page(TRUE, QPrefix \o <<"W", "?">>))
        login == Http(200, PyStr(txt))
    IN /\ unit = "e01"
       /\ pc = [i \in Inv |-> IF i = 1 THEN "report" ELSE "import"]
       /\ loc = [i \in Inv |-> IF i = 1
                   THEN [NoLocals EXCEPT !.OPENAI_API_KEY = PyStr(<<"sk">>),
                                         !.question = PyStr(<<"W", "?">>),
                                         !.answer = PyStr(<<"1939">>),
                                         !.result = login]
                   ELSE NoLocals]
       /\ calls = [i \in Inv |-> IF i = 1
                   THEN << Call("fetch", PyNone, page),
                           Call("llm", PyStr(<<"W", "?">>), LlmText(<<"1939">>)),
                           Call("submit", PyDict([answer |-> PyStr(<<"1939">>)]), login) >>
                   ELSE <<>>]
       /\ out = [i \in Inv |-> IF i = 1
                   THEN << Line("Question fetched", PyStr(<<"W", "?">>)),
                           Line("Answer", PyStr(<<"1939">>)),
                           Line("Login successful.", PyNone) >>
                   ELSE <<>>]
       /\ resp = [i \in Inv |-> PyNone]
       /\ file = PyNone
       /\ spans = [i \in Inv |-> <<>>]
       /\ exit = [i \in Inv |-> PyNone]
       /\ services = [ServiceObjects EXCEPT ![1] = [client |-> "OpenAI"]]

InitFind == \E txt \in Texts : LoggedIn(txt)
NextFind == E01Report(1) \/ E01Opened(1)
SpecFind == InitFind /\ [][NextFind]_vars

----------------------------------------------------------------------------
(* process_test_data and update_answers of e03 on every short test-data    *)
(* list and every short answer list of the model: the first run of e03,    *)
(* with a download that succeeds, a model that answers with a JSON list    *)
(* and a report that is accepted.                                          *)

MaxItems == 2
MaxAnswers == 2

SeqsUpTo(S, n) == UNION {[1..m -> S] : m \in 0..n}

DataAnswered ==
    {[question |-> PyStr(<<"1", "+", "2">>)],
     [question |-> PyStr(<<"1", "+", "0">>), answer |-> PyBool(TRUE)]}
        \cup {[question |-> PyStr(<<"1", "+", "2">>), answer |-> PyInt(a)] : a \in {0, 3, 4}}
DataTests ==
    { PyDict([q |-> PyStr(<<"q1">>), a |-> PyStr(<<"???">>)]),
      PyDict([q |-> PyStr(<<"q2">>)]) }
DataItems ==
    {Item(f) : f \in DataAnswered}
        \cup {Item(f @@ [test |-> t]) : f \in DataAnswered, t \in DataTests}
DataDownloads ==
    {Http(200, JsonText(PyDict("test-data" :> PyList(l)))) : l \in SeqsUpTo(DataItems, MaxItems)}
DataEntries == {Answer(q, a) : q \in {"q1", "q2"}, a \in {"x", "y"}}
DataLlm == {LlmText(JsonText(PyList(l))) : l \in SeqsUpTo(DataEntries, MaxAnswers)}

InitData ==
    /\ unit = "e03"
    /\ pc = [i \in Inv |-> IF i = 1 THEN "fetch" ELSE "import"]
    /\ loc = [i \in Inv |-> IF i = 1 THEN [NoLocals EXCEPT !.OPENAI_API_KEY = PyStr(<<"sk">>)]
                                     ELSE NoLocals]
    /\ calls = [i \in Inv |-> <<>>]
    /\ out = [i \in Inv |-> <<>>]
    /\ resp = [i \in Inv |-> PyNone]
    /\ file = PyNone
    /\ spans = [i \in Inv |-> <<>>]
    /\ exit = [i \in Inv |-> PyNone]
    /\ services = [ServiceObjects EXCEPT ![1] = [client |-> "OpenAI"]]
DataReports == {Http(200, JsonText(PyODict(<< <<"code", PyInt(0)>> >>)))}
NextData ==
    \/ E03DownloadFrom(1, DataDownloads)
    \/ E03AskFrom(1, DataLlm)
    \/ E03SubmitFrom(1, DataReports)
SpecData == InitData /\ [][NextData]_vars

----------------------------------------------------------------------------
(* Properties *)

Steps == {"fetch", "llm", "submit"}
FetchRes(i) == calls[i][1].res
LlmCall(i) == calls[i][Min(Issued(i, "llm"))]
SubmitCall(i) == calls[i][Min(Issued(i, "submit"))]
Aborted(i) == pc[i] = "done"

\* C1 (as stated): in e01, e02 and e03, a fetch response whose status is not
\* 200 aborts the run, and the language-model step is never called in it.
C1_Non200FetchAborts ==
    \A i \in Inv :
        (unit \in Pipelines /\ calls[i] # <<>>
            /\ FetchRes(i).t = "http" /\ FetchRes(i).status # 200)
        => (Aborted(i) /\ Issued(i, "llm") = {})

FetchRejected(i) ==
    /\ FetchRes(i).t = "http"
    /\ IF unit = "e01" THEN FetchRes(i).status # 200 ELSE FetchRes(i).status >= 400

\* C1 (amended): a fetch response whose status is not 200 (e01), or is an HTTP
\* error status, 400 to 599 (e02, e03), aborts the run, and the language-model
\* step is never called in it.
C1_RejectedFetchAborts ==
    \A i \in Inv :
        (unit \in Pipelines /\ calls[i] # <<>> /\ FetchRejected(i))
        => (Aborted(i) /\ Issued(i, "llm") = {})

C1_Witness ==
    \E i \in Inv : unit = "e02" /\ calls[i] # <<>> /\ FetchRes(i).t = "http"
                   /\ FetchRes(i).status = 404 /\ FetchRes(i).body.valid /\ Aborted(i)

\* C2: in e01, e02 and e03, when the language-model step has yielded an empty
\* or None result, the run is aborted and the submit step is never called.
C2_EmptyAnswerAborts ==
    \A i \in Inv :
        (unit \in Pipelines /\ Issued(i, "llm") # {} /\ ~Truthy(loc[i].answer))
        => (Aborted(i) /\ Issued(i, "submit") = {})

Succeeded(i) == unit \in FlaskUnits /\ pc[i] = "done" /\ resp[i].status = 200
RespText(i) ==
    IF unit = "prompt" THEN resp[i].body.d.response ELSE resp[i].body.d.completion
RespSession(i) ==
    IF unit = "prompt" THEN resp[i].body.d.session_id ELSE resp[i].body.d.conversation_id
Supplied(i) == SessionKey \in DOMAIN loc[i].request.val.d
SessionEchoed(i) ==
    IF Supplied(i) THEN RespSession(i) = loc[i].request.val.d[SessionKey]
    ELSE RespSession(i) = loc[i].uuid4

\* C3 (as stated): a successful POST /api/chat answers with a non-empty
\* generated text and with the session identifier of the request body, or a
\* newly generated one when the body has none.
C3_NonEmptyTextAndSession ==
    \A i \in Inv : Succeeded(i) => (Truthy(RespText(i)) /\ SessionEchoed(i))

\* C3 (amended): a successful POST /api/chat answers with the text the model
\* returned, unchecked (it is empty or null when the model's is), and with the
\* session identifier of the request body, or the one uuid4() generated for
\* this request when the body has none.
C3_ModelTextAndSession ==
    \A i \in Inv :
        Succeeded(i) => (RespText(i) = LlmCall(i).res.content /\ SessionEchoed(i))

C3_Witness ==
    /\ Succeeded(1) /\ Supplied(1) /\ Truthy(RespText(1))
    /\ Succeeded(2) /\ ~Supplied(2) /\ RespSession(2) # RespSession(1)

ExcRaised(i) ==
    /\ unit \in FlaskUnits /\ pc[i] = "done"
    /\ \/ ~loc[i].request.valid
       \/ loc[i].request.val.t # "dict"
       \/ \E k \in 1..Len(calls[i]) : calls[i][k].res.t = "raised"

\* C4: in both Flask units, an exception raised while POST /api/chat is handled
\* gives status 500 with the generic JSON error object, whatever the exception.
C4_GenericError500 ==
    \A i \in Inv : ExcRaised(i) => resp[i] = Json(500, GenericError)

\* C5: in e01 and e02, what is submitted is the model's output for the question
\* this run's fetch returned, and in e02 with the msgID received with it.
C5_AnswerOfFetchedQuestion ==
    \A i \in Inv :
        (unit \in {"e01", "e02"} /\ Issued(i, "submit") # {})
        => LET f == calls[i][1]
               l == calls[i][2]
               s == calls[i][3]
           IN /\ Len(calls[i]) = 3
              /\ f.fn = "fetch" /\ l.fn = "llm" /\ s.fn = "submit"
              /\ l.arg = (IF unit = "e01"
                          THEN PyStr(Slice9(Strip(f.res.body.text)))
                          ELSE f.res.body.val.d.text)
              /\ (IF unit = "e01" THEN s.arg.d.answer ELSE s.arg.d.text) = PyStr(l.res.out)
              /\ (unit = "e02" => s.arg.d.msgID = f.res.body.val.d.msgID)

C5_Witness ==
    /\ unit = "e02" /\ Issued(1, "submit") # {} /\ Issued(2, "submit") # {}
    /\ calls[1][1].res.body.val.d.msgID # calls[2][1].res.body.val.d.msgID
    /\ calls[2][3].arg.d.msgID = PyInt(8)

CallFailed(c) ==
    \/ c.res.t \in {"neterr", "OpenAIError"}
    \/ c.res.t = "http" /\ c.res.status >= 400

\* C6: in every run of a pipeline script each external call is issued at most
\* once, and no external call follows one that failed.
C6_NoCallAfterFailure ==
    \A i \in Inv :
        unit \in Pipelines
        => /\ \A fn \in Steps : Cardinality(Issued(i, fn)) <= 1
           /\ \A k \in 1..(Len(calls[i]) - 1) : ~CallFailed(calls[i][k])

LacksField(i) ==
    /\ calls[i] # <<>> /\ FetchRes(i).t = "http" /\ FetchRes(i).status = 200
    /\ CASE unit = "e01" -> ~FetchRes(i).body.hasElem
         [] unit = "e02" -> /\ FetchRes(i).body.valid
                            /\ FetchRes(i).body.val.t = "dict"
                            /\ "text" \notin DOMAIN FetchRes(i).body.val.d
         [] unit = "e03" -> /\ FetchRes(i).body.valid
                            /\ FetchRes(i).body.val.t = "dict"
                            /\ "test-data" \notin DOMAIN FetchRes(i).body.val.d

\* C7: a fetched payload without the expected field (e01: the human-question
\* element, e02: text, e03: test-data) aborts the run: neither the
\* language-model step nor the submit step is called.
C7_MissingFieldAborts ==
    \A i \in Inv :
        (unit \in Pipelines /\ LacksField(i))
        => (Aborted(i) /\ Issued(i, "llm") = {} /\ Issued(i, "submit") = {})

ReportLines ==
    {"Secret page URL", "Found content", "Secret data fetched successfully.",
     "Hidden phrase retrieved successfully", "Found phrase with 'FLG'"}
AbortLines ==
    {"Login failed.", "Failed to retrieve hidden phrase. Exiting.", "Unexpected error",
     "Error sending report", "An error occurred"}
Reported(i) == \E k \in 1..Len(out[i]) : out[i][k].msg \in ReportLines
AbortSaid(i) == \E k \in 1..Len(out[i]) : out[i][k].msg \in AbortLines

\* C8 (as stated): a submit response whose status is not 200, or a network
\* exception of the submit call, aborts the run with a message, and the report
\* step reports no result.
C8_Non200SubmitAborts ==
    \A i \in Inv :
        (unit \in Pipelines /\ Issued(i, "submit") # {}
            /\ (SubmitCall(i).res.t = "neterr" \/ SubmitCall(i).res.status # 200))
        => (Aborted(i) /\ AbortSaid(i) /\ ~Reported(i))

SubmitRejected(i) ==
    \/ SubmitCall(i).res.t = "neterr"
    \/ IF unit = "e01" THEN SubmitCall(i).res.status # 200
       ELSE SubmitCall(i).res.status >= 400

\* C8 (amended): a submit response whose status is not 200 (e01), or is an HTTP
\* error status, 400 to 599 (e02, e03), or a network exception of the submit
\* call, aborts the run with a message, and the report step reports no result.
C8_RejectedSubmitAborts ==
    \A i \in Inv :
        (unit \in Pipelines /\ Issued(i, "submit") # {} /\ SubmitRejected(i))
        => (Aborted(i) /\ AbortSaid(i) /\ ~Reported(i))

C8_Witness ==
    \E i \in Inv : /\ unit = "e01" /\ Issued(i, "submit") # {}
                   /\ SubmitCall(i).res.t = "http" /\ SubmitCall(i).res.status = 201
                   /\ SubmitCall(i).res.body.s # <<>>
                   /\ Aborted(i) /\ Said(i, "Login failed.")

\* the spans {{...}} of a text, from the left: an opening "{{" with the nearest
\* "}}" after it, whatever lies between them
RECURSIVE SpansFrom(_, _)
SpansFrom(s, i) ==
    IF i + 3 > Len(s) THEN <<>>
    ELSE LET closes == {j \in (i + 2)..(Len(s) - 1) : s[j] = "}" /\ s[j + 1] = "}"} IN
         IF s[i] = "{" /\ s[i + 1] = "{" /\ closes # {}
         THEN <<SubSeq(s, i + 2, Min(closes) - 1)>> \o SpansFrom(s, Min(closes) + 2)
         ELSE SpansFrom(s, i + 1)

FoundLines(i) == SelectSeq(out[i], LAMBDA ln : ln.msg = "Found content")
FoundContents(i) == [k \in 1..Len(FoundLines(i)) |-> FoundLines(i)[k].val.s]

\* C9: for every response text, fetch_secret_data reports exactly the contents
\* of the text's {{...}} spans, one per span, in order.
C9_ReportsEverySpan ==
    (unit = "e01" /\ pc[1] = "done" /\ loc[1].result.t = "http"
        /\ loc[1].tempfile = PyBool(TRUE))
    => FoundContents(1) = SpansFrom(loc[1].result.body.s, 1)

Shorter == IF Len(calls[1]) < Len(calls[2]) THEN Len(calls[1]) ELSE Len(calls[2])

\* a SIGINT has ended the run of e01: a KeyboardInterrupt that nothing catches
Interrupted01(i) ==
    \E k \in 1..Len(out[i]) : out[i][k] = Line("Traceback", PyStr(<<"KeyboardInterrupt">>))

\* the calls whose result is made by the program and its libraries (the
\* random trace id of the Langfuse SDK), not by a remote endpoint
Internal == {"create_trace"}

\* both invocations have ended with no SIGINT sent to a script, the requests
\* and the environment were the same, and every external call of the second
\* was answered as the corresponding call of the first
SameInputs ==
    /\ pc[1] = "done" /\ pc[2] = "done"
    /\ loc[1].request = loc[2].request
    /\ loc[1].OPENAI_API_KEY = loc[2].OPENAI_API_KEY
    /\ loc[1].tempfile = loc[2].tempfile
    /\ \A i \in Inv : ~Interrupted01(i)
    /\ \A k \in 1..Shorter :
          calls[1][k].fn \notin Internal => calls[1][k].res = calls[2][k].res

\* C10 (as stated): the same request, or the same pipeline, handled twice with
\* the same external responses has the same outcome both times.
C10_SameOutcomeTwice ==
    SameInputs =>
        IF unit \in Pipelines
        THEN calls[1] = calls[2] /\ out[1] = out[2]
        ELSE resp[1] = resp[2]

\* the identifiers of the response that the invocation has generated: the
\* trace id, and the session identifier when the request did not supply one
GeneratedKeys(i) ==
    IF resp[i].status # 200 THEN {}
    ELSE (IF Supplied(i) THEN {} ELSE {SessionKey}) \cup (DOMAIN resp[i].body.d \cap {"trace_id"})

\* the response with the identifiers the invocation has generated left out
SessionMasked(i) ==
    IF GeneratedKeys(i) = {} THEN resp[i]
    ELSE [resp[i] EXCEPT !.body = PyDict([k \in DOMAIN @.d \ GeneratedKeys(i) |-> @.d[k]])]

\* C10 (amended): the same request, or the same pipeline, handled twice with the
\* same external responses has the same outcome both times, except for the
\* identifiers each invocation generates anew: a session identifier the
\* request does not supply (uuid4()), under which the trace is opened and
\* finalized, and the trace_id of a langfuse_python response; these differ
\* between the two responses.
C10_SameOutcomeButFreshSession ==
    SameInputs =>
        IF unit \in Pipelines
        THEN calls[1] = calls[2] /\ out[1] = out[2]
        ELSE /\ SessionMasked(1) = SessionMasked(2)
             /\ GeneratedKeys(1) = GeneratedKeys(2)
             /\ \A key \in GeneratedKeys(1) : resp[1].body.d[key] # resp[2].body.d[key]
             /\ \A i \in Inv : Succeeded(i) => SessionEchoed(i)
             /\ Len(calls[1]) = Len(calls[2])
             /\ \A k \in 1..Len(calls[1]) :
                   /\ calls[1][k].fn = calls[2][k].fn
                   /\ calls[1][k].fn \notin {"create_trace", "finalize_trace"}
                        => calls[1][k].arg = calls[2][k].arg

C10_Witness ==
    /\ unit = "python" /\ SameInputs
    /\ Succeeded(1) /\ Succeeded(2) /\ Supplied(1)
    /\ LlmCall(1).res.content = PyStr(<<"hello">>)
    /\ resp[1].body.d.completion = resp[2].body.d.completion
    /\ resp[1].body.d.trace_id # resp[2].body.d.trace_id

RoleTagged(m) ==
    /\ m.t = "dict"
    /\ "role" \in DOMAIN m.d
    /\ m.d.role \in {PyStr(<<"system">>), PyStr(<<"user">>), PyStr(<<"assistant">>)}

\* C11: while the langfuse_python handler processes a request, every entry of
\* its message list is a role-tagged entry (system, user or assistant); the
\* list is built for the request from the system message and the client's
\* messages, its only mutation is the append of the model's reply, and the
\* list received from the client is not modified.
C11_RoleTaggedMessageList ==
    \A i \in Inv :
        (unit = "python" /\ loc[i].all_messages # PyNone)
        => LET received == GetOr(loc[i].data, "messages", PyList(<<>>))
               built == all_messages_of(received.l)
               lst == loc[i].all_messages.l
           IN /\ \A k \in 1..Len(lst) : RoleTagged(lst[k])
              /\ loc[i].messages = received
              /\ \/ lst = built
                 \/ Len(lst) = Len(built) + 1 /\ SubSeq(lst, 1, Len(built)) = built

\* main() has been called: the module-level statements have run
Entered(i) == loc[i].OPENAI_API_KEY # PyNone
\* an exception has escaped main(): the OSError of fetch_secret_data's
\* temporary file, or the KeyboardInterrupt of a SIGINT that came after main()
\* was called
Escaped(i) == loc[i].tempfile = PyBool(FALSE) \/ (Interrupted01(i) /\ Entered(i))
\* a module-level statement has raised: main() has not been called
ImportFailed(i) ==
    \E k \in 1..Len(out[i]) : out[i][k] = Line("Traceback", PyStr(<<"OpenAIError">>))
HandledAbort(i) ==
    Said(i, "Failed to fetch the question.")
        \/ Said(i, "Failed to get an answer from the LLM.") \/ Said(i, "Login failed.")

\* C12 (as stated): the e01 process exits with status 1 exactly when an
\* exception has escaped main(), and with status 0 in every other case, the
\* handled aborts (failed fetch, failed language-model call, failed login)
\* included; it has no exit status before it ends.
C12_ExitStatus ==
    \A i \in Inv :
        unit = "e01"
        => /\ pc[i] # "done" => exit[i] = PyNone
           /\ pc[i] = "done" => /\ exit[i] = PyInt(1) <=> Escaped(i)
                                /\ exit[i] = PyInt(0) <=> ~Escaped(i)
                                /\ HandledAbort(i) => exit[i] = PyInt(0)

\* C12 (amended): the e01 process exits with status 1 exactly when an
\* Exception has escaped main() or a module-level statement has raised before
\* main() is called (OpenAI(...) without an API key); a KeyboardInterrupt,
\* in main() or in a module-level statement, ends it by SIGINT, without
\* status 1; it exits with
\* status 0 in every other case, the handled aborts (failed fetch, failed
\* language-model call, failed login) included; it has no exit status before
\* it ends.
C12_ExitStatusByCause ==
    \A i \in Inv :
        unit = "e01"
        => /\ pc[i] # "done" => exit[i] = PyNone
           /\ pc[i] = "done" =>
                /\ exit[i] \in {PyInt(0), PyInt(1), [t |-> "signal", name |-> "SIGINT"]}
                /\ exit[i] = PyInt(1)
                      <=> ImportFailed(i) \/ (Escaped(i) /\ ~Interrupted01(i))
                /\ ImportFailed(i) => ~Entered(i) /\ calls[i] = <<>>
                /\ exit[i] = [t |-> "signal", name |-> "SIGINT"] <=> Interrupted01(i)
                /\ HandledAbort(i) => exit[i] = PyInt(0)

C12_Witness ==
    /\ unit = "e01" /\ pc[1] = "done" /\ pc[2] = "done"
    /\ ImportFailed(1) /\ exit[1] = PyInt(1) /\ calls[1] = <<>>
    /\ Interrupted01(2) /\ Said(2, "Login successful.") /\ exit[2] # PyInt(1)
    /\ loc[2].tempfile = PyBool(TRUE) /\ ~Said(2, "Secret page URL")

\* the entries of spans[i] of one kind, and of one kind and span
Events(i, ev) == {k \in 1..Len(spans[i]) : spans[i][k].ev = ev}
EventsOf(i, ev, name) == {k \in Events(i, ev) : spans[i][k].name = name}
TraceOfSpan(i, name) == spans[i][Min(EventsOf(i, "start", name))].trace

\* C13: in langfuse_python, every span and generation started while a request
\* is handled (the main span, the llm-call generation, the finalize-trace span)
\* belongs to the trace that create_trace started for the request, and the
\* trace_id of the response is that trace's id.
C13_SpansInRequestTrace ==
    \A i \in Inv :
        (unit = "python" /\ EventsOf(i, "start", "Chaty-Chat") # {})
        => /\ \A k \in Events(i, "start") : spans[i][k].trace = TraceOfSpan(i, "Chaty-Chat")
           /\ Succeeded(i) => resp[i].body.d.trace_id = PyStr(<<TraceOfSpan(i, "Chaty-Chat")>>)

\* C14: in langfuse_prompt, the trace that finalize_trace updates with the
\* input messages and the generated response is the trace that create_trace
\* started for the request, and the request's generation is in that trace.
C14_FinalizeUpdatesCreatedTrace ==
    \A i \in Inv :
        (unit = "prompt" /\ Succeeded(i))
        => LET fin == spans[i][Min(EventsOf(i, "update_trace", "Main trace finalization"))] IN
           /\ fin.val.d.input = PyList(NonSystem(loc[i].messages.l))
           /\ fin.val.d.output = loc[i].completion
           /\ fin.trace = TraceOfSpan(i, "Main trace creation")
           /\ TraceOfSpan(i, "here_i_call_llm") = TraceOfSpan(i, "Main trace creation")

OpenAt(i, name, k) ==
    /\ \E j \in EventsOf(i, "start", name) : j < k
    /\ \A j \in EventsOf(i, "end", name) : j > k

\* C15: in langfuse_python, the main span is open while the model call is made
\* and still open when the output or the error is recorded on it, and it has
\* been closed when the handler has ended, on every exit path.
C15_MainSpanOpenAcrossCall ==
    \A i \in Inv :
        unit = "python"
        => /\ \A k \in Events(i, "call") : OpenAt(i, "Main Completion", k)
           /\ EventsOf(i, "update_dropped", "Main Completion") = {}
           /\ (pc[i] = "done" /\ EventsOf(i, "start", "Main Completion") # {})
                => Ended(spans[i], "Main Completion")

ModelCallFailed(i) ==
    \E k \in 1..Len(calls[i]) : calls[i][k].fn \in {"llm", "get_prompt"} /\ calls[i][k].res.t = "raised"

\* C16: in langfuse_prompt, a request is answered with status 200 only after
\* create_trace, the model call and finalize_trace with its flush have each
\* happened exactly once for the request, in this order; when the model call
\* (or the loading of the prompt before it) fails, finalize_trace is never
\* invoked for the request.
C16_TraceCallFinalizeInOrder ==
    \A i \in Inv :
        unit = "prompt"
        => /\ Succeeded(i)
                => /\ \A fn \in {"create_trace", "llm", "finalize_trace"} :
                          Cardinality(Issued(i, fn)) = 1
                   /\ Min(Issued(i, "create_trace")) < Min(Issued(i, "llm"))
                   /\ Min(Issued(i, "llm")) < Min(Issued(i, "finalize_trace"))
                   /\ Cardinality(EventsOf(i, "start", "Main trace creation")) = 1
                   /\ Cardinality(Events(i, "call")) = 1
                   /\ Cardinality(EventsOf(i, "update_trace", "Main trace finalization")) = 1
                   /\ Cardinality(Events(i, "flush")) = 1
                   /\ \A c \in Events(i, "call") :
                         /\ \A k \in EventsOf(i, "end", "Main trace creation") : k < c
                         /\ \A k \in EventsOf(i, "start", "Main trace finalization") : c < k
                   /\ \A f \in Events(i, "flush") :
                         \A k \in EventsOf(i, "update_trace", "Main trace finalization") : k < f
           /\ ModelCallFailed(i)
                => /\ Issued(i, "finalize_trace") = {}
                   /\ EventsOf(i, "start", "Main trace finalization") = {}
                   /\ Events(i, "flush") = {}
                   /\ pc[i] = "done" /\ resp[i].status = 500

C16_Witness ==
    /\ unit = "prompt" /\ Succeeded(1) /\ Events(1, "flush") # {}
    /\ pc[2] = "done" /\ Events(2, "call") # {} /\ ModelCallFailed(2)
    /\ Issued(2, "finalize_trace") = {}

\* the unit's own system message
SystemInstruction == IF unit = "prompt" THEN Msg("system", <<"LF">>) ELSE SystemMsgPy
IsSystem(m) == Get(m, "role") = PyStr(<<"system">>)

\* C17: in both Flask units, the message list sent to the model holds exactly
\* one system-role message, the unit's own system instruction, in first
\* position, followed by the client's non-system messages in their order.
C17_OneSystemMessageFirst ==
    \A i \in Inv :
        unit \in FlaskUnits
        => \A k \in Issued(i, "llm") :
              LET sent == calls[i][k].arg.l
                  received == GetOr(loc[i].data, "messages", PyList(<<>>)).l
              IN /\ sent = <<SystemInstruction>> \o NonSystem(received)
                 /\ Cardinality({j \in 1..Len(sent) : IsSystem(sent[j])}) = 1

\* the value of the arithmetic question "x + y"
ValueOf(question) ==
    LET n == [c \in {"0", "1", "2", "3", "4", "5"} |->
                 CASE c = "0" -> 0 [] c = "1" -> 1 [] c = "2" -> 2
                   [] c = "3" -> 3 [] c = "4" -> 4 [] c = "5" -> 5]
    IN PyInt(n[question.s[1]] + n[question.s[3]])
Downloaded == GetOr(calls[1][1].res.body.val, "test-data", PyList(<<>>)).l

\* C18: after process_test_data, every test-data item that has a question holds
\* (and an answer) holds as its answer the value of that question, whatever
\* answer it held before (a wrong answer of 0 included), and an item whose
\* answer was correct is unchanged.
C18_AnswersCorrected ==
    (unit = "e03" /\ pc[1] = "ask")
    => /\ Len(loc[1].valid_data.l) = Len(Downloaded)
       /\ \A k \in 1..Len(Downloaded) :
             LET before == Downloaded[k]
                 after == loc[1].valid_data.l[k]
             IN /\ ("question" \in DOMAIN before.d /\ "answer" \in DOMAIN before.d)
                     => PyEq(Get(after, "answer"), ValueOf(before.d.question))
                /\ PyEq(Get(before, "answer"), ValueOf(before.d.question)) => after = before

HasQ(item) == "test" \in DOMAIN item.d /\ "q" \in DOMAIN item.d.test.d
EntriesFor(item, answers) ==
    IF answers.t = "list" /\ HasQ(item)
    THEN {j \in 1..Len(answers.l) :
             answers.l[j].t = "dict" /\ Get(answers.l[j], "q") = item.d.test.d.q}
    ELSE {}

\* C19: update_answers sets test.a of every item that has a test question to
\* the 'a' of the first entry of the model's answer list whose 'q' is that
\* question; it leaves unchanged every item with no such entry, and the
\* question and answer fields (and the test question) of every item.
C19_FirstMatchSetsTestA ==
    [][ (unit = "e03" /\ pc[1] = "ask" /\ pc'[1] = "submit")
        => /\ Len(loc'[1].valid_data.l) = Len(loc[1].valid_data.l)
           /\ \A k \in 1..Len(loc[1].valid_data.l) :
                 LET before == loc[1].valid_data.l[k]
                     after == loc'[1].valid_data.l[k]
                     entries == EntriesFor(before, loc'[1].answer)
                 IN /\ Get(after, "question") = Get(before, "question")
                    /\ Get(after, "answer") = Get(before, "answer")
                    /\ IF entries # {}
                       THEN /\ after.d.test.d.a = Get(loc'[1].answer.l[Min(entries)], "a")
                            /\ after.d.test.d.q = before.d.test.d.q
                            /\ DOMAIN after.d = DOMAIN before.d
                       ELSE after = before ]_vars

C19_Witness ==
    /\ unit = "e03" /\ pc[1] = "submit"
    /\ loc[1].answer = PyList(<<Answer("q1", "x"), Answer("q1", "y")>>)
    /\ Len(loc[1].valid_data.l) = 2
    /\ HasQ(loc[1].valid_data.l[1])
    /\ Get(loc[1].valid_data.l[1].d.test, "a") = PyStr(<<"x">>)
    /\ HasQ(loc[1].valid_data.l[2])
    /\ loc[1].valid_data.l[2].d.test = PyDict([q |-> PyStr(<<"q2">>)])

\* the report was answered with a JSON object
ReportAnswered(i) ==
    /\ unit = "e03" /\ Issued(i, "submit") # {}
    /\ SubmitCall(i).res.t = "http" /\ SubmitCall(i).res.status < 400
    /\ SubmitCall(i).res.body.valid
\* the top-level values of the response JSON, in the order of the response:
\* the values of an object's items, the elements of a list
ReportValues(i) ==
    LET val == SubmitCall(i).res.body.val IN
    CASE val.t = "odict" -> [k \in 1..Len(val.items) |-> val.items[k][2]]
      [] val.t = "list" -> val.l
      [] OTHER -> <<>>
ReportIsObject(i) == SubmitCall(i).res.body.val.t = "odict"
RECURSIVE ContainsFLG(_)
ContainsFLG(v) ==
    CASE v.t = "str" -> \E k \in 1..(Len(v.s) - 2) : SubSeq(v.s, k, k + 2) = <<"F", "L", "G">>
      [] v.t = "list" -> \E k \in 1..Len(v.l) : ContainsFLG(v.l[k])
      [] v.t = "odict" ->
            \E k \in 1..Len(v.items) : v.items[k][1] = "FLG" \/ ContainsFLG(v.items[k][2])
      [] OTHER -> FALSE
LinesSaying(i, msg) == SelectSeq(out[i], LAMBDA ln : ln.msg = msg)

\* C20 (as stated): send_report logs a found flag phrase exactly when some
\* top-level value of the response JSON contains 'FLG', and the phrase it logs
\* is the first such value in the order of the response; when no value contains
\* 'FLG' it logs a warning only, and the run ends normally, not as an error.
C20_FirstFLGValueLogged ==
    \A i \in Inv :
        ReportAnswered(i)
        => LET values == ReportValues(i)
               flagged == {k \in 1..Len(values) : ContainsFLG(values[k])}
               found == LinesSaying(i, "Found phrase with 'FLG'")
               warned == LinesSaying(i, "No phrase with 'FLG' found in the response.")
           IN /\ pc[i] = "done"
              /\ IF flagged # {}
                 THEN found = <<Line("Found phrase with 'FLG'", values[Min(flagged)])>>
                      /\ warned = <<>>
                 ELSE /\ found = <<>> /\ Len(warned) = 1
                      /\ ~Said(i, "An error occurred") /\ ~Said(i, "Error sending report")

\* C20 (amended): when the response JSON is an object, send_report logs a found
\* flag phrase exactly when some top-level value contains 'FLG', the phrase
\* being the first such value in the order of the response, and with no such
\* value it logs a warning only and the run ends normally, not as an error.
\* When the response JSON is no object (a list, say), nothing is looked for:
\* neither line is logged, and the run ends as an error of main(), which
\* send_report itself does not log.
C20_FirstFLGValueOfObjectLogged ==
    \A i \in Inv :
        ReportAnswered(i)
        => LET values == ReportValues(i)
               flagged == {k \in 1..Len(values) : ContainsFLG(values[k])}
               found == LinesSaying(i, "Found phrase with 'FLG'")
               warned == LinesSaying(i, "No phrase with 'FLG' found in the response.")
               errors == LinesSaying(i, "An error occurred")
           IN /\ pc[i] = "done"
              /\ ~Said(i, "Error sending report")
              /\ IF ReportIsObject(i)
                 THEN /\ errors = <<>>
                      /\ IF flagged # {}
                         THEN found = <<Line("Found phrase with 'FLG'", values[Min(flagged)])>>
                              /\ warned = <<>>
                         ELSE found = <<>> /\ Len(warned) = 1
                 ELSE /\ found = <<>> /\ warned = <<>>
                      /\ errors = <<Line("An error occurred", PyStr(<<"AttributeError">>))>>

C20_Witness ==
    /\ ReportAnswered(1) /\ ReportAnswered(2)
    /\ ReportIsObject(1)
    /\ Cardinality({k \in 1..Len(ReportValues(1)) : ContainsFLG(ReportValues(1)[k])}) = 2
    /\ ~ContainsFLG(ReportValues(1)[1])
    /\ Said(1, "Found phrase with 'FLG'")
    /\ ~ReportIsObject(2) /\ ReportValues(2) = <<>>
    /\ Said(2, "An error occurred")

\* the position of a step in main()
Rank(p) ==
    CASE p = "fetch" -> 1 [] p = "ask" -> 2 [] p = "submit" -> 3
      [] p = "report" -> 4 [] p = "open" -> 5 [] p = "done" -> 6 [] OTHER -> 0

\* C21: every run of a pipeline script reaches a terminal state (result
\* reported, or run aborted) after a single pass: a step is never entered
\* again, each external call is issued at most once, and, as every external
\* call returns or fails, the run ends.
C21_SinglePassTerminates ==
    /\ [][\A i \in Inv : pc'[i] # pc[i] => Rank(pc'[i]) > Rank(pc[i])]_vars
    /\ [](\A i \in Inv : \A fn \in Steps : Cardinality(Issued(i, fn)) <= 1)
    /\ <>(\A i \in Inv : pc[i] = "done")

C21_Witness ==
    /\ unit = "e03" /\ pc[1] = "done" /\ pc[2] = "done"
    /\ Issued(1, "submit") # {} /\ Said(1, "Found phrase with 'FLG'")
    /\ Said(2, "An error occurred") /\ Issued(2, "llm") = {}

\* what request i asked for and was given: its own session identifier, and the
\* completion of its own model call
OwnSession(i) == GetOr(loc[i].data, SessionKey, loc[i].uuid4)
OwnCompletion(i) == LlmCall(i).res.content

\* C22: when two POST /api/chat requests are handled at the same time, under
\* every interleaving of their steps each response carries the session
\* identifier and the completion of its own request, whatever the other request
\* holds, and the module-level service objects stay as they were built.
C22_OwnSessionAndCompletion ==
    /\ unit \in FlaskUnits => services = ServiceObjects
    /\ \A i \in Inv :
          /\ (unit \in FlaskUnits /\ pc[i] \in {"finalize", "flush"})
                => loc[i].completion = OwnCompletion(i) /\ loc[i].session_id = OwnSession(i)
          /\ Succeeded(i)
                => RespText(i) = OwnCompletion(i) /\ RespSession(i) = OwnSession(i)

C22_Witness ==
    /\ Succeeded(2) /\ pc[1] = "finalize"
    /\ RespText(2) # loc[1].completion
    /\ RespSession(2) # loc[1].session_id
    /\ Truthy(RespText(2)) /\ ~Supplied(1)

\* an item without the fields that e03 may rewrite: answer and test.a
Residue(item) ==
    [k \in DOMAIN item.d \ {"answer"} |->
        IF k = "test" /\ item.d[k].t = "dict"
        THEN PyDict([j \in DOMAIN item.d[k].d \ {"a"} |-> item.d[k].d[j]])
        ELSE item.d[k]]
ParsedList(i) == GetOr(FetchRes(i).body.val, "test-data", PyList(<<>>)).l
SentList(i) == SubmitCall(i).arg.d["test-data"].l

\* C23: the test-data list that e03 submits has the same items in the same order
\* as the list parsed from the downloaded file: no item is added, dropped or
\* reordered, and only the answer field and the test.a field of an item can
\* differ.
C23_SubmitsParsedItems ==
    \A i \in Inv :
        (unit = "e03" /\ Issued(i, "submit") # {})
        => /\ Len(SentList(i)) = Len(ParsedList(i))
           /\ \A k \in 1..Len(ParsedList(i)) :
                 Residue(SentList(i)[k]) = Residue(ParsedList(i)[k])

C23_Witness ==
    /\ unit = "e03" /\ pc[1] = "done" /\ Issued(1, "submit") # {}
    /\ Len(SentList(1)) = 2
    /\ "answer" \in DOMAIN ParsedList(1)[1].d
    /\ ParsedList(1)[1].d.answer = PyInt(4) /\ SentList(1)[1].d.answer = PyInt(3)
    /\ "test" \in DOMAIN ParsedList(1)[2].d
    /\ "a" \in DOMAIN ParsedList(1)[2].d.test.d
    /\ ParsedList(1)[2].d.test.d.a = PyStr(<<"???">>)
    /\ SentList(1)[2].d.test.d.a = PyStr(<<"x">>)
    /\ SentList(1) # ParsedList(1)
====
